---------------------------- MODULE Spec2Model ----------------------------
(***************************************************************************)
(* Model of argocd-manager: the multi-cluster command execution and        *)
(* session-recovery layer (argocd_manager/manager.py) and the CLI flows    *)
(* of argocd_manager/cli.py that drive it.                                 *)
(*                                                                         *)
(* A Python str is modelled as a sequence of one-character strings, so     *)
(* that split, lower, startswith, replace and substring tests are computed *)
(* character by character as the code computes them.                       *)
(***************************************************************************)
EXTENDS Integers, Sequences, FiniteSets, TLC

VARIABLES
    \* --- CommandTranslator (execute_argocd_command, lines 154-189)
    login_tokens,   \* the tokens the stored login command was written from
    login_cmd,      \* the stored login command, a str
    argocd_args,    \* the caller's subcommand arguments
    cmd,            \* the argv built for subprocess.run (<<>> before the call)
    \* --- ConnectionStore and NameResolver (validate_cluster, lines 132-150)
    config,         \* self.config: the connections in insertion order,
                    \* a sequence of [name, command]
    query,          \* the cluster_name a caller passes
    resolved,       \* what validate_cluster returned or raised for query
    \* --- Executor (execute_argocd_command, lines 152-220)
    confirmed_production,   \* self._confirmed_production
    prompted,       \* whether the last call asked the production question
    answer,         \* what the operator typed at that question
    launched,       \* the argvs the last call handed to subprocess.run
    proc,           \* what the launched subprocess did
    result,         \* what the last call returned or raised
    \* --- SessionGuard and the CLI flows (manager.py 222-391, cli.py 116-256)
    pc,             \* where the running CLI process is
    run,            \* the locals of the running flow and of the guarded
                    \* operation and login-recovery cycle it is in
    \* --- the manager object's other fields, the files, the process
    allow_patch,    \* self.allow_patch
    config_path,    \* the config_path the manager was constructed with
    disk,           \* the configuration files, by path
    exit_status     \* the exit status of the CLI process, -1 while it runs

tvars == <<login_tokens, login_cmd, argocd_args, cmd>>
rvars == <<config, query, resolved>>
evars == <<confirmed_production, prompted, answer, launched, proc, result>>
mvars == <<pc, run>>
ovars == <<allow_patch, config_path, disk, exit_status>>
vars == <<login_tokens, login_cmd, argocd_args, cmd, config, query, resolved,
          confirmed_production, prompted, answer, launched, proc, result, pc, run,
          allow_patch, config_path, disk, exit_status>>

---------------------------------------------------------------------------
(* Bounds of the model *)

\* longest stored login command, in tokens
MaxTokens == 4

\* most connections in the store
MaxNames == 2

---------------------------------------------------------------------------
(* str literals *)

S_argocd == <<"a","r","g","o","c","d">>
S_login == <<"l","o","g","i","n">>
S_host == <<"s","v","c",".","e","x","a","m","p","l","e",".","c","o","m">>
S_dashdash == <<"-","-">>
S_sso == <<"-","-","s","s","o">>
S_grpc_web == <<"-","-","g","r","p","c","-","w","e","b">>
S_insecure == <<"-","-","i","n","s","e","c","u","r","e">>
S_auth_token == <<"-","-","a","u","t","h","-","t","o","k","e","n">>
S_port_forward == <<"-","-","p","o","r","t","-","f","o","r","w","a","r","d">>
S_plaintext == <<"-","-","p","l","a","i","n","t","e","x","t">>
S_skip_test_tls == <<"-","-","s","k","i","p","-","t","e","s","t","-","t","l","s">>
S_server == <<"-","-","s","e","r","v","e","r">>
S_placeholder == <<"<","s","e","r","v","e","r",">">>
S_TOK == <<"T","O","K">>
S_app == <<"a","p","p">>
S_list == <<"l","i","s","t">>
S_proj == <<"p","r","o","j">>
S_get == <<"g","e","t">>
S_diff == <<"d","i","f","f">>
S_sync == <<"s","y","n","c">>
S_output == <<"-","-","o","u","t","p","u","t">>
S_json == <<"j","s","o","n">>
S_guestbook == <<"g","b">>
S_UserAborted == <<"U","s","e","r"," ","a","b","o","r","t","e","d"," ","c","o","n","n","e","c","t","i","o","n"," ","t","o"," ","p","r","o","d","u","c","t","i","o","n"," ","c","l","u","s","t","e","r">>
S_UnknownError == <<"U","n","k","n","o","w","n"," ","e","r","r","o","r">>
S_TimedOutAfter == <<"C","o","m","m","a","n","d"," ","t","i","m","e","d"," ","o","u","t"," ","a","f","t","e","r"," ">>
S_seconds == <<" ","s","e","c","o","n","d","s">>
S_EOFError == <<"E","O","F"," ","w","h","e","n"," ","r","e","a","d","i","n","g"," ","a"," ","l","i","n","e">>
S_NoSuchFile == <<"[","E","r","r","n","o"," ","2","]"," ","N","o"," ","s","u","c","h"," ","f","i","l","e"," ","o","r"," ","d","i","r","e","c","t","o","r","y",":"," ","'","a","r","g","o","c","d","'">>
S_y == <<"y">>
S_yes == <<"y","e","s">>
S_Yes_padded == <<" ","Y","e","s"," ">>
S_Y == <<"Y">>
S_n == <<"n">>
S_no == <<"n","o">>
S_maybe == <<"m","a","y","b","e">>
S_Unauthenticated == <<"U","n","a","u","t","h","e","n","t","i","c","a","t","e","d">>
S_invalid_grant == <<"i","n","v","a","l","i","d","_","g","r","a","n","t">>
S_dial_refused == <<"d","i","a","l"," ","s","v","c",".","e","x","a","m","p","l","e",".","c","o","m",":"," ","s","v","c",".","e","x","a","m","p","l","e",".","c","o","m"," ","r","e","f","u","s","e","d">>
S_not_found_padded == <<" ","n","o","t"," ","f","o","u","n","d","\n">>
S_empty_list == <<"[","]">>
S_diff_output == <<"d","i","f","f","\n">>
S_blank == <<" ","\n">>
S_5 == <<"5">>
S_30 == <<"3","0">>
S_300 == <<"3","0","0">>
S_pat_unauthenticated == <<"u","n","a","u","t","h","e","n","t","i","c","a","t","e","d">>
S_invalid_session == <<"i","n","v","a","l","i","d"," ","s","e","s","s","i","o","n">>
S_pat_rpc_unauthenticated == <<"r","p","c"," ","e","r","r","o","r",":"," ","c","o","d","e"," ","="," ","u","n","a","u","t","h","e","n","t","i","c","a","t","e","d">>
S_invalid_refresh_token == <<"i","n","v","a","l","i","d"," ","r","e","f","r","e","s","h"," ","t","o","k","e","n">>
S_oauth2 == <<"o","a","u","t","h","2">>
S_rpc_Unauthenticated == <<"r","p","c"," ","e","r","r","o","r",":"," ","c","o","d","e"," ","="," ","U","n","a","u","t","h","e","n","t","i","c","a","t","e","d">>
S_doc == <<"{","\"","k","\"",":","1","}">>
S_doc_one == <<"{","\"","s","p","e","c","\"",":","{","\"","s","o","u","r","c","e","\"",":","{","\"","r","e","p","o","U","R","L","\"",":","\"","r","1","\"","}","}","}">>
S_doc_two == <<"{","\"","s","p","e","c","\"",":","{","\"","s","o","u","r","c","e","s","\"",":","[","{","\"","r","e","p","o","U","R","L","\"",":","\"","r","1","\"","}",",","{","\"","r","e","p","o","U","R","L","\"",":","\"","r","2","\"","}","]","}","}">>
S_doc_dup == <<"{","\"","s","p","e","c","\"",":","{","\"","s","o","u","r","c","e","s","\"",":","[","{","\"","r","e","p","o","U","R","L","\"",":","\"","r","2","\"","}",",","{","\"","r","e","p","o","U","R","L","\"",":","\"","r","2","/","\"","}","]","}","}">>
S_a_star == <<"a","*">>
S_r1 == <<"r","1">>
S_r2 == <<"r","2">>
S_r2_slash == <<"r","2","/">>
S_r9 == <<"r","9">>
S_set == <<"s","e","t">>
S_revision == <<"-","-","r","e","v","i","s","i","o","n">>
S_v2 == <<"v","2">>
S_repo == <<"-","-","r","e","p","o">>
S_source_position == <<"-","-","s","o","u","r","c","e","-","p","o","s","i","t","i","o","n">>
S_kubectl == <<"k","u","b","e","c","t","l">>
S_dash_n == <<"-","n">>
S_ns_argocd == <<"a","r","g","o","c","d">>
S_patch == <<"p","a","t","c","h">>
S_applications_crd == <<"a","p","p","l","i","c","a","t","i","o","n","s",".","a","r","g","o","p","r","o","j",".","i","o">>
S_applications == <<"a","p","p","l","i","c","a","t","i","o","n","s">>
S_type_json == <<"-","-","t","y","p","e","=","j","s","o","n">>
S_type == <<"-","-","t","y","p","e">>
S_merge == <<"m","e","r","g","e">>
S_dash_p == <<"-","p">>
S_json_patch_head == <<"[","{","\"","o","p","\"",":"," ","\"","r","e","p","l","a","c","e","\"",","," ","\"","p","a","t","h","\"",":"," ","\"","/","s","p","e","c","/","s","o","u","r","c","e","s","/">>
S_json_patch_tail == <<"/","t","a","r","g","e","t","R","e","v","i","s","i","o","n","\"",","," ","\"","v","a","l","u","e","\"",":"," ","\"","v","2","\"","}","]">>
S_merge_patch == <<"{","\"","s","p","e","c","\"",":"," ","{","\"","s","o","u","r","c","e","\"",":"," ","{","\"","t","a","r","g","e","t","R","e","v","i","s","i","o","n","\"",":"," ","\"","v","2","\"","}","}","}">>
S_s == <<"s">>
S_skip == <<"s","k","i","p">>
S_Skip == <<"S","k","i","p">>
S_1 == <<"1">>
S_7 == <<"7">>
S_x == <<"x">>
S_slash == <<"/">>
S_prod_east == <<"p","r","o","d","-","e","a","s","t">>
S_prod == <<"p","r","o","d">>
S_Prod == <<"P","r","o","d">>
S_PROD == <<"P","R","O","D">>
S_pROD == <<"p","R","O","D">>
S_prd == <<"p","r","d">>
S_abcde == <<"a","b","c","d","e">>
S_abcxy == <<"a","b","c","x","y">>
S_abc == <<"a","b","c">>
S_abd == <<"a","b","d">>
S_ab == <<"a","b">>
S_zz == <<"z","z">>
S_p == <<"p">>
S_dev == <<"d","e","v">>
S_Prod_East == <<"P","r","o","d","-","E","a","s","t">>

---------------------------------------------------------------------------
(* Python str operations *)

Whitespace == {" ", "\n", "\t"}

\* str.startswith(p)
StartsWith(s, p) ==
    Len(s) >= Len(p) /\ SubSeq(s, 1, Len(p)) = p

\* `sub in s`
Contains(s, sub) ==
    \E k \in 0..(Len(s) - Len(sub)) : SubSeq(s, k + 1, k + Len(sub)) = sub

UpperToLower ==
    ("A" :> "a") @@ ("B" :> "b") @@ ("C" :> "c") @@ ("D" :> "d") @@ ("E" :> "e") @@
    ("F" :> "f") @@ ("G" :> "g") @@ ("H" :> "h") @@ ("I" :> "i") @@ ("J" :> "j") @@
    ("K" :> "k") @@ ("L" :> "l") @@ ("M" :> "m") @@ ("N" :> "n") @@ ("O" :> "o") @@
    ("P" :> "p") @@ ("Q" :> "q") @@ ("R" :> "r") @@ ("S" :> "s") @@ ("T" :> "t") @@
    ("U" :> "u") @@ ("V" :> "v") @@ ("W" :> "w") @@ ("X" :> "x") @@ ("Y" :> "y") @@
    ("Z" :> "z")

\* str.lower()
Lower(s) ==
    [k \in 1..Len(s) |-> IF s[k] \in DOMAIN UpperToLower THEN UpperToLower[s[k]] ELSE s[k]]

RECURSIVE LStrip(_)
LStrip(s) ==
    IF s # <<>> /\ s[1] \in Whitespace THEN LStrip(Tail(s)) ELSE s

RECURSIVE RStrip(_)
RStrip(s) ==
    IF s # <<>> /\ s[Len(s)] \in Whitespace THEN RStrip(SubSeq(s, 1, Len(s) - 1)) ELSE s

\* str.strip()
Strip(s) == RStrip(LStrip(s))

\* str.split(): the maximal runs of non-whitespace characters, in order.
\* cur is the token being read, acc the tokens read so far.
RECURSIVE SplitFrom(_, _, _)
SplitFrom(s, cur, acc) ==
    IF s = <<>>
    THEN IF cur = <<>> THEN acc ELSE Append(acc, cur)
    ELSE IF s[1] \in Whitespace
         THEN SplitFrom(Tail(s), <<>>, IF cur = <<>> THEN acc ELSE Append(acc, cur))
         ELSE SplitFrom(Tail(s), Append(cur, s[1]), acc)

Split(s) == SplitFrom(s, <<>>, <<>>)

\* str.replace(old, new) for a non-empty old: leftmost, non-overlapping.
RECURSIVE ReplaceNonEmpty(_, _, _)
ReplaceNonEmpty(s, old, new) ==
    IF Len(s) < Len(old) THEN s
    ELSE IF SubSeq(s, 1, Len(old)) = old
         THEN new \o ReplaceNonEmpty(SubSeq(s, Len(old) + 1, Len(s)), old, new)
         ELSE <<s[1]>> \o ReplaceNonEmpty(Tail(s), old, new)

\* str.replace('', new): new is inserted before every character and at the end.
RECURSIVE ReplaceEmpty(_, _)
ReplaceEmpty(s, new) ==
    IF s = <<>> THEN new ELSE new \o <<s[1]>> \o ReplaceEmpty(Tail(s), new)

\* str.replace(old, new)
Replace(s, old, new) ==
    IF old = <<>> THEN ReplaceEmpty(s, new) ELSE ReplaceNonEmpty(s, old, new)

\* ' '.join(tokens) with the separator sep
RECURSIVE Join(_, _)
Join(tokens, sep) ==
    IF tokens = <<>> THEN <<>>
    ELSE IF Len(tokens) = 1 THEN tokens[1]
         ELSE tokens[1] \o sep \o Join(Tail(tokens), sep)

\* Optional[str]: <<>> is None, <<s>> is the str s.
None == <<>>
Some(s) == <<s>>
\* Python truthiness of an Optional[str]
Truthy(opt) == opt # None /\ opt[1] # <<>>
\* `opt or ''`
OrEmpty(opt) == IF Truthy(opt) THEN opt[1] ELSE <<>>

---------------------------------------------------------------------------
(* CommandTranslator: execute_argocd_command, lines 154-189 *)

ARGOCD == S_argocd

ALLOWED_GLOBAL_FLAGS ==
    {S_grpc_web, S_insecure, S_auth_token, S_port_forward, S_plaintext}

\* ForwardFlags without the allow-list test of line 175: every token after the
\* server URL is forwarded.
RECURSIVE ForwardFlags_ForwardAll(_, _, _)
ForwardFlags_ForwardAll(parts, i, connection_args) ==
    IF i > Len(parts) THEN connection_args
    ELSE ForwardFlags_ForwardAll(parts, i + 1, Append(connection_args, parts[i]))

\* ForwardFlags without lines 178-180: the value of --auth-token is not attached.
RECURSIVE ForwardFlags_NoValue(_, _, _)
ForwardFlags_NoValue(parts, i, connection_args) ==
    IF i > Len(parts) THEN connection_args
    ELSE IF parts[i] \in ALLOWED_GLOBAL_FLAGS
         THEN ForwardFlags_NoValue(parts, i + 1, Append(connection_args, parts[i]))
         ELSE ForwardFlags_NoValue(parts, i + 1, connection_args)

\* The inner while loop (lines 171-182): parts[i..] are candidate flags
\* (1-based i), connection_args the flags forwarded so far.
RECURSIVE ForwardFlags(_, _, _)
ForwardFlags(parts, i, connection_args) ==
    IF i > Len(parts) THEN connection_args
    ELSE IF parts[i] \in ALLOWED_GLOBAL_FLAGS
         THEN IF /\ parts[i] = S_auth_token
                 /\ i + 1 <= Len(parts)
                 /\ ~StartsWith(parts[i + 1], S_dashdash)
              THEN ForwardFlags(parts, i + 2,
                                connection_args \o <<parts[i], parts[i + 1]>>)
              ELSE ForwardFlags(parts, i + 1, Append(connection_args, parts[i]))
         ELSE ForwardFlags(parts, i + 1, connection_args)

\* The outer while loop (lines 163-184): scan for the first `login` token.
RECURSIVE ParseLogin(_, _)
ParseLogin(parts, i) ==
    IF i > Len(parts)
    THEN [server_url |-> None, connection_args |-> <<>>]
    ELSE IF parts[i] = S_login
         THEN LET hasUrl == i + 1 <= Len(parts) /\ ~StartsWith(parts[i + 1], S_dashdash)
              IN  [server_url |-> IF hasUrl THEN Some(parts[i + 1]) ELSE None,
                   connection_args |->
                       ForwardFlags(parts, IF hasUrl THEN i + 2 ELSE i + 1, <<>>)]
         ELSE ParseLogin(parts, i + 1)

\* lines 155-184: login_cmd.split() and the scan
ParseConnection(loginCmd) == ParseLogin(Split(loginCmd), 1)

\* BuildCmd with the connection flags put before --server.
BuildCmd_FlagsFirst(loginCmd, args) ==
    LET p == ParseLogin(Split(loginCmd), 1)
    IN  <<ARGOCD>> \o args
        \o p.connection_args
        \o (IF Truthy(p.server_url) THEN <<S_server, p.server_url[1]>> ELSE <<>>)

\* lines 186-189: cmd = ['argocd'] + argocd_args (+ --server url) + flags
BuildCmd(loginCmd, args) ==
    LET p == ParseConnection(loginCmd)
    IN  <<ARGOCD>> \o args
        \o (IF Truthy(p.server_url) THEN <<S_server, p.server_url[1]>> ELSE <<>>)
        \o p.connection_args

---------------------------------------------------------------------------
(* NameResolver: fuzzy_match (lines 27-37) and validate_cluster (132-150) *)

\* difflib.SequenceMatcher.find_longest_match(alo, ahi, blo, bhi) without junk
\* (autojunk needs 200 elements): the longest block a[i:i+k] = b[j:j+k] inside
\* the ranges; of the longest, the one starting earliest in a, and of those the
\* one starting earliest in b. Indices are 0-based, ranges half-open.
BlockAt(a, b, i, j, k) ==
    \A d \in 0..(k - 1) : a[i + d + 1] = b[j + d + 1]

FindLongestMatch(a, b, alo, ahi, blo, bhi) ==
    LET blocks == {t \in (alo..ahi) \X (blo..bhi) \X (0..(ahi - alo)) :
                       /\ t[1] + t[3] <= ahi
                       /\ t[2] + t[3] <= bhi
                       /\ BlockAt(a, b, t[1], t[2], t[3])}
        size == CHOOSE k \in {t[3] : t \in blocks} : \A t \in blocks : t[3] <= k
        longest == {t \in blocks : t[3] = size}
    IN  IF size = 0 THEN <<alo, blo, 0>>
        ELSE CHOOSE t \in longest :
                 \A u \in longest : t[1] < u[1] \/ (t[1] = u[1] /\ t[2] <= u[2])

\* difflib.SequenceMatcher.get_matching_blocks: the sum of the sizes of the
\* longest match and, recursively, of the matches to its left and to its right.
RECURSIVE Matches(_, _, _, _, _, _)
Matches(a, b, alo, ahi, blo, bhi) ==
    LET m == FindLongestMatch(a, b, alo, ahi, blo, bhi)
        i == m[1]
        j == m[2]
        k == m[3]
    IN  IF k = 0 THEN 0
        ELSE k
             + (IF alo < i /\ blo < j THEN Matches(a, b, alo, i, blo, j) ELSE 0)
             + (IF i + k < ahi /\ j + k < bhi
                THEN Matches(a, b, i + k, ahi, j + k, bhi) ELSE 0)

\* difflib.SequenceMatcher(None, a, b).ratio() = 2.0 * matches / (len(a) + len(b)),
\* 1.0 when both are empty; kept as the fraction n / d.
Ratio(a, b) ==
    IF Len(a) + Len(b) = 0 THEN [n |-> 1, d |-> 1]
    ELSE [n |-> 2 * Matches(a, b, 0, Len(a), 0, Len(b)), d |-> Len(a) + Len(b)]

\* r > s and r >= s on fractions with positive denominators
RatioGT(r, s) == r.n * s.d > s.n * r.d
RatioGE(r, s) == r.n * s.d >= s.n * r.d

\* threshold: float = 0.6
Threshold == [n |-> 6, d |-> 10]

\* the ratio fuzzy_match computes for one choice (line 33)
ChoiceRatio(q, c) == Ratio(Lower(q), Lower(c))

\* the for loop of fuzzy_match with `ratio >= best_ratio`: the last of the
\* best choices wins.
RECURSIVE FuzzyLoop_LastWins(_, _, _, _, _)
FuzzyLoop_LastWins(q, choices, k, best, best_ratio) ==
    IF k > Len(choices) THEN best
    ELSE LET ratio == ChoiceRatio(q, choices[k])
         IN  IF RatioGE(ratio, best_ratio) /\ RatioGE(ratio, Threshold)
             THEN FuzzyLoop_LastWins(q, choices, k + 1, Some(choices[k]), ratio)
             ELSE FuzzyLoop_LastWins(q, choices, k + 1, best, best_ratio)

\* the for loop of fuzzy_match (lines 32-36)
RECURSIVE FuzzyLoop(_, _, _, _, _)
FuzzyLoop(q, choices, k, best, best_ratio) ==
    IF k > Len(choices) THEN best
    ELSE LET ratio == ChoiceRatio(q, choices[k])
         IN  IF RatioGT(ratio, best_ratio) /\ RatioGE(ratio, Threshold)
             THEN FuzzyLoop(q, choices, k + 1, Some(choices[k]), ratio)
             ELSE FuzzyLoop(q, choices, k + 1, best, best_ratio)

\* fuzzy_match(query, choices): an Optional[str]
fuzzy_match(q, choices) ==
    IF \E k \in 1..Len(choices) : choices[k] = q THEN Some(q)
    ELSE FuzzyLoop(q, choices, 1, None, [n |-> 0, d |-> 1])

\* list(self.config.keys())
Keys(cfg) == [k \in 1..Len(cfg) |-> cfg[k].name]

\* self.config[name]
Command(cfg, name) ==
    cfg[CHOOSE k \in 1..Len(cfg) : cfg[k].name = name].command

\* validate_cluster without the case-insensitive step (lines 137-142)
validate_cluster_NoCaseStep(cfg, cluster_name) ==
    LET keys == Keys(cfg)
        match == fuzzy_match(cluster_name, keys)
    IN  IF \E k \in 1..Len(keys) : keys[k] = cluster_name
        THEN [status |-> "ok", name |-> cluster_name, how |-> "exact"]
        ELSE IF Truthy(match)
             THEN [status |-> "ok", name |-> match[1], how |-> "fuzzy"]
             ELSE [status |-> "ConfigurationError"]

\* validate_cluster(cluster_name): the name returned and the step that found
\* it (the warning printed), or the ConfigurationError raised.
validate_cluster(cfg, cluster_name) ==
    LET keys == Keys(cfg)
        \* lower_map = {k.lower(): k for k in keys}: a later key replaces an
        \* earlier one with the same lowercase form
        inLowerMap == \E k \in 1..Len(keys) : Lower(keys[k]) = Lower(cluster_name)
        last == CHOOSE k \in 1..Len(keys) :
                    /\ Lower(keys[k]) = Lower(cluster_name)
                    /\ \A j \in (k + 1)..Len(keys) : Lower(keys[j]) # Lower(cluster_name)
        match == fuzzy_match(cluster_name, keys)
    IN  IF \E k \in 1..Len(keys) : keys[k] = cluster_name
        THEN [status |-> "ok", name |-> cluster_name, how |-> "exact"]
        ELSE IF inLowerMap
             THEN [status |-> "ok", name |-> keys[last], how |-> "case-insensitive"]
             ELSE IF Truthy(match)
                  THEN [status |-> "ok", name |-> match[1], how |-> "fuzzy"]
                  ELSE [status |-> "ConfigurationError"]

---------------------------------------------------------------------------
(* Executor: confirm_action (lines 40-49) and execute_argocd_command
   (lines 152-220) *)

\* what input() gives: a line, or EOFError at the end of input
Line(text) == [kind |-> "line", text |-> text]
EOF == [kind |-> "eof"]
Unasked == [kind |-> "unasked"]

\* confirm_action(prompt, default) once input() returned the line response
confirm_action(response, default) ==
    LET r == Lower(Strip(response.text))
    IN  IF r = <<>> THEN default ELSE r \in {S_y, S_yes}

\* What a launched subprocess can do: exit with a status and its two streams,
\* run into the timeout, or fail to start (OSError).
Exited(code, out, err) == [kind |-> "exit", code |-> code, stdout |-> out, stderr |-> err]
TimedOut == [kind |-> "timeout"]
NotStarted == [kind |-> "oserror"]

Returned(out) == [kind |-> "ok", out |-> out]
Raised(msg) == [kind |-> "CommandExecutionError", msg |-> msg]

\* lines 202-220 with a non-zero exit always raising, stdout ignored
RunOutcome_NoStdoutCase(server_url, timeout, p) ==
    IF p.kind = "timeout" THEN Raised(S_TimedOutAfter \o timeout \o S_seconds)
    ELSE IF p.kind = "oserror" THEN Raised(S_NoSuchFile)
    ELSE IF p.code = 0 THEN Returned(p.stdout)
    ELSE Raised(Replace(IF Strip(p.stderr) # <<>> THEN Strip(p.stderr) ELSE S_UnknownError,
                        OrEmpty(server_url), S_placeholder))

\* lines 202-220: the outcome of subprocess.run(cmd, check=True, timeout=timeout)
\* as the call returns or raises it
RunOutcome(server_url, timeout, p) ==
    IF p.kind = "timeout" THEN Raised(S_TimedOutAfter \o timeout \o S_seconds)
    ELSE IF p.kind = "oserror" THEN Raised(S_NoSuchFile)
    ELSE IF p.code = 0 THEN Returned(p.stdout)
    ELSE LET stdout == Strip(p.stdout)
             stderr == Strip(p.stderr)
             err == IF stderr # <<>> THEN stderr ELSE S_UnknownError
         IN  IF stdout # <<>> THEN Returned(stdout)
             ELSE Raised(Replace(err, OrEmpty(server_url), S_placeholder))

\* the production question asked whether or not the name was confirmed
NeedsConfirmation_AskAgain(confirmed, name) ==
    Contains(Lower(name), S_prod)

\* line 195: the production question is due
NeedsConfirmation(confirmed, name) ==
    Contains(Lower(name), S_prod) /\ name \notin confirmed

\* lines 154-189 once validate_cluster gave v: the stored login command is
\* read and the argv built from it
Prepared(cfg, v, args) ==
    LET login == Command(cfg, v.name)
    IN  IF v.status # "ok"
        THEN [resolved |-> v, cmd |-> <<>>, server_url |-> None]
        ELSE [resolved |-> v, cmd |-> BuildCmd(login, args),
              server_url |-> ParseConnection(login).server_url]

\* lines 153-189: the name is resolved and the argv built; a
\* ConfigurationError of validate_cluster leaves the call before the try block
Prepare(cfg, cluster_name, args) ==
    Prepared(cfg, validate_cluster(cfg, cluster_name), args)

\* the try block with the answer to the production question ignored
TryBlock_NoAbort(prep, confirmed, timeout, ans, p) ==
    LET name == prep.resolved.name
        ask == NeedsConfirmation(confirmed, name)
    IN  IF prep.resolved.status # "ok"
        THEN [resolved |-> prep.resolved, cmd |-> <<>>, prompted |-> FALSE,
              confirmed |-> confirmed, launched |-> <<>>,
              result |-> [kind |-> "ConfigurationError"]]
        ELSE [resolved |-> prep.resolved, cmd |-> prep.cmd, prompted |-> ask,
              confirmed |-> IF ask THEN confirmed \cup {name} ELSE confirmed,
              launched |-> <<prep.cmd>>,
              result |-> RunOutcome(prep.server_url, timeout, p)]

\* lines 193-220, the try block: the production question, then the
\* subprocess; ans is the operator's answer (read only if the question is
\* asked), p the subprocess's behaviour (met only if it is launched).
TryBlock(prep, confirmed, timeout, ans, p) ==
    LET name == prep.resolved.name
        ask == NeedsConfirmation(confirmed, name)
    IN  IF prep.resolved.status # "ok"
        THEN [resolved |-> prep.resolved, cmd |-> <<>>, prompted |-> FALSE,
              confirmed |-> confirmed, launched |-> <<>>,
              result |-> [kind |-> "ConfigurationError"]]
        ELSE IF ask /\ ans = EOF
        \* input() raises EOFError, re-raised by lines 219-220
        THEN [resolved |-> prep.resolved, cmd |-> prep.cmd, prompted |-> TRUE,
              confirmed |-> confirmed, launched |-> <<>>,
              result |-> Raised(S_EOFError)]
        ELSE IF ask /\ ~confirm_action(ans, FALSE)
        \* line 198, re-raised with the same message by lines 219-220
        THEN [resolved |-> prep.resolved, cmd |-> prep.cmd, prompted |-> TRUE,
              confirmed |-> confirmed, launched |-> <<>>,
              result |-> Raised(S_UserAborted)]
        ELSE [resolved |-> prep.resolved, cmd |-> prep.cmd, prompted |-> ask,
              confirmed |-> IF ask THEN confirmed \cup {name} ELSE confirmed,
              launched |-> <<prep.cmd>>,
              result |-> RunOutcome(prep.server_url, timeout, p)]

\* execute_argocd_command(cluster_name, argocd_args, timeout)
execute_argocd_command(cfg, confirmed, cluster_name, args, timeout, ans, p) ==
    TryBlock(Prepare(cfg, cluster_name, args), confirmed, timeout, ans, p)

---------------------------------------------------------------------------
(* SessionGuard: the guarded operations (manager.py 284-391) and the
   login-recovery cycle _handle_oidc_login (222-281); the CLI flows that
   call them (cli.py 154-256). *)

\* poll_attempts = 15
PollAttempts == 15

\* the locals before any flow started
NoRun ==
    [flow |-> "none",           \* the subcommand: "op" (one guarded operation) or "overview"
     phase |-> "none",          \* overview: "first" fetch, "second" fetch, "diff"
     op |-> "none",             \* the guarded operation being run
     target |-> <<>>,           \* its cluster_name argument, as the caller passed it
     rest |-> <<>>,             \* overview, set-target: the clusters still to visit
     clusters |-> <<>>,         \* set-target: the clusters the patterns expanded to
     visited |-> <<>>,          \* those set_application_target_revision was called for
     returns |-> <<>>,          \* what each of these calls returned
     succeeded |-> 0,           \* set-target: its counter `succeeded`
     args_read |-> FALSE,       \* set-target: --repo and --index have been read
     quiet |-> FALSE,
     attempt |-> 0,             \* the guard loop's `attempt`
     polls |-> 0,               \* polls issued by the running recovery cycle
     login_caller |-> "none",   \* who called _handle_oidc_login: "guard" or "overview"
     op_calls |-> 0,            \* execute_argocd_command calls of this guarded operation
     op_launches |-> 0,         \* controller subprocesses it launched
     status_calls |-> 0,        \* `app get` calls for the current cluster
     logins |-> 0,              \* login subprocesses run for the current cluster
     auth_seen |-> FALSE,       \* a failure classified as authentication occurred for it
     first_msg |-> None,        \* the message of the operation's first failure
     repo |-> None,             \* set_application_target_revision: its arguments
     source_index |-> None,
     dry_run |-> FALSE,
     sources |-> <<>>,          \* the repoURL of each source of the fetched status
     resolved_index |-> None,
     choice |-> Unasked,        \* the operator's last answer at the chooser
     set_calls |-> 0,           \* execute_argocd_command calls made for `app set`
     set_result |-> "none",     \* how the `app set` call ended: "ok" or "failed"
     set_msg |-> None,          \* the message of its failure
     mutations |-> <<>>,        \* the mutation subprocesses launched, in order
     login_found |-> FALSE,     \* _handle_oidc_login found a stored login command
     poll_msg |-> None,         \* the failure message of the latest poll, if it failed
     login_result |-> "none",   \* what _handle_oidc_login returned
     guard_result |-> [kind |-> "none"],
     outcome |-> [kind |-> "none"]]

GuardedOps ==
    {"list_projects", "list_applications", "get_application_status",
     "get_application_diff", "sync_application"}

\* the cmd each guarded operation passes (lines 285, 309, 329, 347, 372)
OpArgs(op) ==
    CASE op = "list_projects" -> <<S_proj, S_list, S_output, S_json>>
      [] op = "list_applications" -> <<S_app, S_list, S_output, S_json>>
      [] op = "get_application_status" -> <<S_app, S_get, S_guestbook, S_output, S_json>>
      [] op = "get_application_diff" -> <<S_app, S_diff, S_guestbook>>
      [] op = "sync_application" -> <<S_app, S_sync, S_guestbook>>

\* timeout=300 for the sync (line 379), the default 30 otherwise
OpTimeout(op) == IF op = "sync_application" THEN S_300 ELSE S_30

\* the lowercase patterns of lines 294, 319, 337, 354, 386
AuthPatterns ==
    {S_pat_unauthenticated, S_invalid_session, S_pat_rpc_unauthenticated,
     S_invalid_grant, S_invalid_refresh_token, S_oauth2}

\* any(k in low for k in (...)) with low = str(e).lower()
IsAuthFailure(msg) ==
    \E k \in AuthPatterns : Contains(Lower(msg), k)

\* lines 271-272: the poll loop's own, case-sensitive test
StillUnauthenticated(err) ==
    \/ Contains(err, S_Unauthenticated)
    \/ Contains(err, S_invalid_session)
    \/ Contains(err, S_rpc_Unauthenticated)

\* a value returned; truthy is its Python truth value
Value(truthy) == [kind |-> "value", truthy |-> truthy]
\* None (False for the sync) returned; reported: "Failed: ..." was printed
NoneResult(reported) == [kind |-> "None", reported |-> reported]
\* an exception that leaves the operation
Escaped(exc) == [kind |-> "raised", exc |-> exc]

\* json.loads(out) on the documents the controller prints here
\* the application documents the controller prints here, and the `sources`
\* set_application_target_revision reads from them (lines 422-427)
Documents == {S_doc, S_doc_one, S_doc_two, S_doc_dup}
SourcesOf(doc) ==
    CASE doc = S_doc -> <<>>
      [] doc = S_doc_one -> <<S_r1>>
      [] doc = S_doc_two -> <<S_r1, S_r2>>
      [] doc = S_doc_dup -> <<S_r2, S_r2_slash>>

\* a parsed application document: a non-empty dict
Parsed(doc) == [kind |-> "value", truthy |-> TRUE, sources |-> SourcesOf(doc)]

JsonLoads(out) ==
    IF Strip(out) \in Documents THEN Parsed(Strip(out))
    ELSE IF Strip(out) = S_empty_list THEN Value(FALSE)
    ELSE Escaped("JSONDecodeError")

\* what the operation returns once execute_argocd_command returned out
GuardSuccess(op, out) ==
    CASE op \in {"list_projects", "list_applications", "get_application_status"} ->
             (IF out # <<>> THEN JsonLoads(out) ELSE NoneResult(FALSE))
      [] op = "get_application_diff" -> Value(out # <<>>)
      [] op = "sync_application" -> Value(TRUE)

\* what the operation returns after a failure it does not retry
GuardFailure(r) ==
    NoneResult(~(r.op = "get_application_diff" /\ r.quiet))

\* a guarded operation begins (its loop's locals are fresh)
StartGuard(r, op) ==
    [r EXCEPT !.op = op, !.attempt = 0, !.polls = 0, !.login_caller = "none",
              !.op_calls = 0, !.op_launches = 0, !.first_msg = None,
              !.login_found = FALSE, !.poll_msg = None,
              !.login_result = "none", !.guard_result = [kind |-> "none"]]

At(p, r) == [pc |-> p, run |-> r]

\* cli.py 258-292: the row of one cluster is complete; the for loop goes on
NextCluster(r) ==
    IF r.rest = <<>>
    THEN At("done", [r EXCEPT !.outcome = Value(TRUE)])
    ELSE At("exec", StartGuard([r EXCEPT !.target = Head(r.rest), !.rest = Tail(r.rest),
                                         !.phase = "first", !.status_calls = 0,
                                         !.logins = 0, !.auth_seen = FALSE],
                               "get_application_status"))

\* cli.py 259-290: `if not status` gives the <no-data> row, else the diff is
\* fetched
AfterStatus(r, g) ==
    IF g.kind = "value" /\ g.truthy
    THEN At("exec", StartGuard([r EXCEPT !.phase = "diff"], "get_application_diff"))
    ELSE NextCluster(r)

\* --- set_application_target_revision (lines 407-521)

\* str(n) and int(s) on the indices that occur
Digits == <<"0", "1", "2", "3", "4", "5", "6", "7", "8", "9">>
Str(n) == IF n < 10 THEN <<Digits[n + 1]>> ELSE <<Digits[(n \div 10) + 1], Digits[(n % 10) + 1]>>
IsDigit(s) == s # <<>> /\ \A k \in 1..Len(s) : \E j \in 1..10 : Digits[j] = s[k]
DigitValue(c) == (CHOOSE j \in 1..10 : Digits[j] = c) - 1
RECURSIVE ParseInt(_)
ParseInt(s) == IF s = <<>> THEN 0 ELSE 10 * ParseInt(SubSeq(s, 1, Len(s) - 1)) + DigitValue(s[Len(s)])

\* s.rstrip('/')
RECURSIVE RStripSlash(_)
RStripSlash(s) ==
    IF s # <<>> /\ s[Len(s)] = "/" THEN RStripSlash(SubSeq(s, 1, Len(s) - 1)) ELSE s

\* the subprocess ended with exit status 0
ExitedZero(p) == p.kind = "exit" /\ p.code = 0

\* a mutation subprocess that was launched: its argv and whether it exited 0
Mutation(argv, zero) == [argv |-> argv, zero |-> zero]

\* lines 430-436: the index of the first source whose repoURL is repo
MatchRepo(sources, repo) ==
    LET hits == {i \in 1..Len(sources) :
                    sources[i] # <<>> /\ RStripSlash(sources[i]) = RStripSlash(repo)}
    IN  IF hits = {} THEN None
        ELSE Some((CHOOSE i \in hits : \A j \in hits : i <= j) - 1)

\* lines 465-470
SetCmd(r) ==
    <<S_app, S_set, S_guestbook, S_revision, S_v2>>
    \o (IF Truthy(r.repo) THEN <<S_repo, r.repo[1]>> ELSE <<>>)
    \o (IF r.resolved_index # None
        THEN <<S_source_position, Str(r.resolved_index[1] + 1)>> ELSE <<>>)

\* lines 494-502
PatchCmd(r) ==
    IF r.resolved_index # None
    THEN <<S_kubectl, S_dash_n, S_ns_argocd, S_patch, S_applications_crd, S_guestbook,
           S_type_json, S_dash_p,
           S_json_patch_head \o Str(r.resolved_index[1]) \o S_json_patch_tail>>
    ELSE <<S_kubectl, S_dash_n, S_ns_argocd, S_patch, S_applications_crd, S_guestbook,
           S_type, S_merge, S_dash_p, S_merge_patch>>

\* lines 511-514: patch_cmd[3] = 'applications' (Python indexes from 0)
SecondPatchCmd(r) == [PatchCmd(r) EXCEPT ![4] = S_applications]

\* the function returns b to the loop of cli.py 407-413
RevisionReturns(r, b) == At("returned", [r EXCEPT !.outcome = Value(b)])

\* fnmatch.fnmatch(name, pat) for patterns of literals, `*` and `?`
RECURSIVE FnMatch(_, _)
FnMatch(name, pat) ==
    IF pat = <<>> THEN name = <<>>
    ELSE IF Head(pat) = "*"
    THEN FnMatch(name, Tail(pat)) \/ (name # <<>> /\ FnMatch(Tail(name), pat))
    ELSE /\ name # <<>>
         /\ Head(pat) = "?" \/ Head(pat) = Head(name)
         /\ FnMatch(Tail(name), Tail(pat))

\* cli.py 392: [c for c in available if fnmatch.fnmatch(c.lower(), pl)]
RECURSIVE MatchesOf(_, _)
MatchesOf(available, pl) ==
    IF available = <<>> THEN <<>>
    ELSE (IF FnMatch(Lower(Head(available)), pl) THEN <<Head(available)>> ELSE <<>>)
         \o MatchesOf(Tail(available), pl)

\* cli.py 387-396: the patterns expanded against the configured names
RECURSIVE ExpandPatterns(_, _)
ExpandPatterns(available, raw_patterns) ==
    IF raw_patterns = <<>> THEN <<>>
    ELSE MatchesOf(available, Lower(Head(raw_patterns)))
         \o ExpandPatterns(available, Tail(raw_patterns))

\* cli.py 399-400: duplicates removed, the order of first occurrence kept
RECURSIVE Deduplicate(_, _)
Deduplicate(clusters, seen) ==
    IF clusters = <<>> THEN <<>>
    ELSE IF Head(clusters) \in seen THEN Deduplicate(Tail(clusters), seen)
    ELSE <<Head(clusters)>> \o Deduplicate(Tail(clusters), seen \cup {Head(clusters)})

\* the locals of set_application_target_revision before its first statement
FreshLocals(r) ==
    [StartGuard(r, "none") EXCEPT
        !.sources = <<>>, !.resolved_index = None, !.choice = Unasked,
        !.set_calls = 0, !.set_result = "none", !.set_msg = None,
        !.mutations = <<>>, !.outcome = [kind |-> "none"]]

\* manager.py 414-417: set_application_target_revision begins, given what
\* validate_cluster made of its cluster_name
EnterCluster(r, v) ==
    IF v.status # "ok"
    THEN At("done", [r EXCEPT !.outcome = Escaped("ConfigurationError")])
    ELSE At("exec", StartGuard([r EXCEPT !.target = v.name], "get_application_status"))

\* cli.py 407-409: the loop calls set_application_target_revision for the
\* next cluster
StartCluster(cfg, r) ==
    EnterCluster([FreshLocals(r) EXCEPT !.target = Head(r.rest), !.rest = Tail(r.rest),
                                        !.visited = Append(@, Head(r.rest))],
                 validate_cluster(cfg, Head(r.rest)))

\* cli.py 410-413 and 446: the call returned ok; the loop counts it and goes
\* on, and after the last cluster "Done: n/m succeeded" is printed (the
\* outcome kept is whether every cluster succeeded)
AfterReturn(cfg, r) ==
    LET ok == r.outcome.truthy
        r1 == [FreshLocals(r) EXCEPT !.returns = Append(@, ok),
                                     !.succeeded = @ + (IF ok THEN 1 ELSE 0)]
    IN  IF r1.rest = <<>>
        THEN At("done", [r1 EXCEPT !.outcome = Value(r1.succeeded = Len(r1.clusters))])
        ELSE StartCluster(cfg, r1)

\* the selection step with the dry-run short-circuit left out
AfterSelection_NoDryRun(r) == At("set", r)

\* lines 464-474: the command is built; a dry run ends here
AfterSelection(r) ==
    IF r.dry_run THEN RevisionReturns(r, TRUE) ELSE At("set", r)

\* lines 418-427, once get_application_status returned g (the locals of its
\* guard loop are gone)
AfterStatusFetch(r, g) ==
    LET r0 == [StartGuard(r, r.op) EXCEPT !.guard_result = g, !.status_calls = 0,
                                          !.logins = 0, !.auth_seen = FALSE]
    IN  IF ~(g.kind = "value" /\ g.truthy) THEN RevisionReturns(r0, FALSE)
        ELSE At("select", [r0 EXCEPT !.sources = g.sources])

\* lines 430-438, where the arguments repo and source_index are first read
ResolveSource(r, repo, source_index) ==
    LET byRepo == IF Truthy(repo) /\ Len(r.sources) > 1 /\ source_index = None
                  THEN MatchRepo(r.sources, repo[1])
                  ELSE source_index
        r1 == [r EXCEPT !.repo = repo, !.source_index = source_index,
                        !.args_read = TRUE, !.resolved_index = byRepo]
    IN  IF Len(r.sources) > 1 /\ byRepo = None THEN At("choose", r1)
        ELSE AfterSelection(r1)

\* the chooser taking every answer that is not a valid index as index 0
AfterChoice_SkipSelectsFirst(r, answer_) ==
    LET r1 == [r EXCEPT !.choice = answer_]
    IN  IF answer_ # EOF /\ IsDigit(Strip(answer_.text))
           /\ ParseInt(Strip(answer_.text)) < Len(r.sources)
        THEN AfterSelection([r1 EXCEPT !.resolved_index = Some(ParseInt(Strip(answer_.text)))])
        ELSE AfterSelection([r1 EXCEPT !.resolved_index = Some(0)])

\* lines 448-462: one turn of the chooser's `while True`
AfterChoice(r, answer_) ==
    LET r1 == [r EXCEPT !.choice = answer_]
    IN  IF answer_ = EOF THEN RevisionReturns(r1, FALSE)
        ELSE LET choice == Strip(answer_.text)
             IN  IF choice = <<>> \/ Lower(choice) \in {S_s, S_skip, S_n, S_no}
                 THEN RevisionReturns(r1, FALSE)
                 ELSE IF IsDigit(choice) /\ ParseInt(choice) < Len(r.sources)
                 THEN AfterSelection([r1 EXCEPT !.resolved_index = Some(ParseInt(choice))])
                 ELSE At("choose", r1)

\* the primary failure handler taking the fallback whatever allow_patch is
AfterPrimary_AlwaysFallBack(r, allow, e, p) ==
    LET r1 == [r EXCEPT !.mutations = IF e.launched # <<>>
                                      THEN Append(@, Mutation(e.launched[1], ExitedZero(p)))
                                      ELSE @,
                        !.set_calls = @ + 1,
                        !.set_result = IF e.result.kind = "ok" THEN "ok" ELSE "failed",
                        !.set_msg = IF e.result.kind = "ok" THEN None
                                    ELSE Some(e.result.msg)]
    IN  IF e.result.kind = "ok" THEN RevisionReturns(r1, TRUE) ELSE At("patch", r1)

\* lines 476-487, once execute_argocd_command ended as e (its subprocess, if
\* launched, as p)
AfterPrimary(r, allow, e, p) ==
    LET r1 == [r EXCEPT !.mutations = IF e.launched # <<>>
                                      THEN Append(@, Mutation(e.launched[1], ExitedZero(p)))
                                      ELSE @,
                        !.set_calls = @ + 1,
                        !.set_result = IF e.result.kind = "ok" THEN "ok" ELSE "failed",
                        !.set_msg = IF e.result.kind = "ok" THEN None
                                    ELSE Some(e.result.msg)]
    IN  IF e.result.kind = "ok" THEN RevisionReturns(r1, TRUE)
        ELSE IF ~allow THEN RevisionReturns(r1, FALSE)
        ELSE At("patch", r1)

\* lines 504-521: a kubectl run ended as kp; second: it was the one of the
\* except clause
AfterPatch(r, argv, kp, second) ==
    IF kp = "oserror" THEN At("done", [r EXCEPT !.outcome = Escaped("FileNotFoundError")])
    \* subprocess.run is given no timeout: it waits for as long as kubectl runs
    ELSE IF kp = "hangs"
    THEN At("hung", [r EXCEPT !.mutations = Append(@, Mutation(argv, FALSE))])
    ELSE LET r1 == [r EXCEPT !.mutations = Append(@, Mutation(argv, kp = "exit0"))]
         IN  IF kp = "exit0" THEN RevisionReturns(r1, TRUE)
             ELSE IF second THEN RevisionReturns(r1, FALSE)
             ELSE At("patch2", r1)

\* The guarded operation returns g (or raises) to the flow that called it.
GuardReturn(r, g) ==
    LET r1 == [r EXCEPT !.guard_result = g]
    IN  IF r.flow = "op" \/ g.kind = "raised"
        THEN At("done", [r1 EXCEPT !.outcome = g])
        ELSE IF r.flow = "revision" THEN AfterStatusFetch(r1, g)
        ELSE CASE r.phase = "first" ->
                      \* cli.py 242-248: `if status is None` runs the login flow
                      (IF g.kind = "None"
                       THEN At("login", [r1 EXCEPT !.login_caller = "overview"])
                       ELSE AfterStatus(r1, g))
               [] r.phase = "second" -> AfterStatus(r1, g)
               [] r.phase = "diff" -> NextCluster(r1)

\* _handle_oidc_login returns b to its caller: the guard loop retries on True
\* (`continue`) and gives up on False; cli.py 256 fetches again either way.
LoginReturn(r, b) ==
    LET r1 == [r EXCEPT !.login_result = IF b THEN "true" ELSE "false"]
    IN  IF r.login_caller = "guard"
        THEN IF b THEN At("exec", [r1 EXCEPT !.attempt = 1])
             ELSE GuardReturn(r1, GuardFailure(r1))
        ELSE At("exec", StartGuard([r1 EXCEPT !.phase = "second"],
                                   "get_application_status"))

\* an exception leaves _handle_oidc_login: through the guard loop to the
\* flow, or into cli.py 249-250 (`except Exception: pass`)
LoginEscapes(r, exc) ==
    IF r.login_caller = "guard" THEN GuardReturn(r, Escaped(exc))
    ELSE At("exec", StartGuard([r EXCEPT !.phase = "second"], "get_application_status"))

\* the guard loop with the retry taken after any failure of the first attempt
AfterGuardedCall_RetryAnyFailure(r, e) ==
    LET r1 == [r EXCEPT !.op_calls = @ + 1,
                        !.op_launches = @ + Len(e.launched),
                        !.status_calls =
                            @ + (IF r.op = "get_application_status" THEN 1 ELSE 0),
                        !.first_msg =
                            IF r.attempt = 0 /\ e.result.kind = "CommandExecutionError"
                            THEN Some(e.result.msg) ELSE @]
    IN  CASE e.result.kind = "ConfigurationError" ->
                 GuardReturn(r1, Escaped("ConfigurationError"))
          [] e.result.kind = "ok" ->
                 GuardReturn(r1, GuardSuccess(r.op, e.result.out))
          [] OTHER ->
                 IF r.attempt = 0
                 THEN At("login", [r1 EXCEPT !.login_caller = "guard"])
                 ELSE GuardReturn(r1, GuardFailure(r1))

\* One pass of the guard loop `for attempt in range(2)` (lines 286-298 and
\* their copies) once its execute_argocd_command call ended as e.
AfterGuardedCall(r, e) ==
    LET auth == e.result.kind = "CommandExecutionError" /\ IsAuthFailure(e.result.msg)
        r1 == [r EXCEPT !.op_calls = @ + 1,
                        !.op_launches = @ + Len(e.launched),
                        !.status_calls =
                            @ + (IF r.op = "get_application_status" THEN 1 ELSE 0),
                        !.auth_seen = @ \/ auth,
                        !.first_msg =
                            IF r.attempt = 0 /\ e.result.kind = "CommandExecutionError"
                            THEN Some(e.result.msg) ELSE @]
    IN  CASE e.result.kind = "ConfigurationError" ->
                 \* not a CommandExecutionError: it leaves the operation
                 GuardReturn(r1, Escaped("ConfigurationError"))
          [] e.result.kind = "ok" ->
                 GuardReturn(r1, GuardSuccess(r.op, e.result.out))
          [] OTHER ->
                 IF auth /\ r.attempt = 0
                 THEN At("login", [r1 EXCEPT !.login_caller = "guard"])
                 ELSE GuardReturn(r1, GuardFailure(r1))

\* line 227: login_cmd = self.config.get(cluster_name), looked up by the name
\* as passed; None or '' gives "No login command available"
HasLoginCommand(cfg, name) ==
    \E k \in 1..Len(cfg) : cfg[k].name = name /\ cfg[k].command # <<>>

\* the poll loop reporting success when its attempts are exhausted
AfterPoll_SuccessOnExhaustion(r, confirmed, e) ==
    LET r1 == [r EXCEPT !.polls = @ + 1,
                        !.poll_msg = IF e.result.kind = "CommandExecutionError"
                                     THEN Some(e.result.msg) ELSE None]
    IN  CASE e.result.kind = "ok" ->
                 [next |-> LoginReturn(r1, TRUE), confirmed |-> e.confirmed]
          [] e.result.kind = "ConfigurationError" ->
                 [next |-> LoginEscapes(r1, "ConfigurationError"), confirmed |-> e.confirmed]
          [] OTHER ->
                 [next |-> IF StillUnauthenticated(e.result.msg)
                           THEN IF r1.polls < PollAttempts THEN At("poll", r1)
                                ELSE LoginReturn(r1, TRUE)
                           ELSE LoginReturn(r1, FALSE),
                  confirmed |-> e.confirmed]

\* One pass of the poll loop (lines 258-281) once its execute_argocd_command
\* call ended as e; with the confirmation set it leaves.
AfterPoll(r, confirmed, e) ==
    LET r1 == [r EXCEPT !.polls = @ + 1,
                        !.poll_msg = IF e.result.kind = "CommandExecutionError"
                                     THEN Some(e.result.msg) ELSE None]
    IN  CASE e.result.kind = "ok" ->
                 [next |-> LoginReturn(r1, TRUE),
                  confirmed |-> IF Contains(Lower(r.target), S_prod)
                                THEN e.confirmed \cup {r.target} ELSE e.confirmed]
          [] e.result.kind = "ConfigurationError" ->
                 [next |-> LoginEscapes(r1, "ConfigurationError"), confirmed |-> e.confirmed]
          [] OTHER ->
                 [next |-> IF StillUnauthenticated(e.result.msg)
                           THEN IF r1.polls < PollAttempts THEN At("poll", r1)
                                ELSE LoginReturn(r1, FALSE)
                           ELSE LoginReturn(r1, FALSE),
                  confirmed |-> e.confirmed]

---------------------------------------------------------------------------
(* Specification of the translator: a stored login command and the caller's
   arguments are drawn, and the argv is built from them. *)

Vocabulary ==
    {S_argocd, S_login, S_host, S_sso, S_grpc_web, S_insecure, S_auth_token, S_TOK}

RECURSIVE TokenSeqs(_)
TokenSeqs(n) ==
    IF n = 0 THEN {<<>>}
    ELSE LET shorter == TokenSeqs(n - 1)
         IN  shorter \cup {Append(t, v) : t \in {u \in shorter : Len(u) = n - 1},
                                          v \in Vocabulary}

ExtraArgs == {<<S_app, S_list>>, <<S_app, S_diff, S_guestbook>>}

\* separators a stored command may be written with
Separators == {<<" ">>, <<" ", " ">>}

TIdle ==
    /\ login_tokens = <<>>
    /\ login_cmd = <<>>
    /\ argocd_args = <<>>
    /\ cmd = <<>>

RIdle ==
    /\ config = <<>>
    /\ query = <<>>
    /\ resolved = [status |-> "none"]

EIdle ==
    /\ confirmed_production = {}
    /\ prompted = FALSE
    /\ answer = Unasked
    /\ launched = <<>>
    /\ proc = [kind |-> "none"]
    /\ result = [kind |-> "none"]

\* the files a manager can be pointed at: DEFAULT_CONFIG_PATH and another
DEFAULT_CONFIG_PATH == <<"~","/",".","a","r","g","o","c","d","_","u","r","l","s",".","j","s","o","n">>
OtherPath == <<".","/","c","o","n","n","e","c","t","i","o","n","s",".","j","s","o","n">>
Paths == {DEFAULT_CONFIG_PATH, OtherPath}

\* a file that does not exist, and one holding a mapping
Absent == [exists |-> FALSE, content |-> <<>>]
File(store) == [exists |-> TRUE, content |-> store]

OIdle ==
    /\ allow_patch = FALSE
    /\ config_path = None
    /\ disk = [p \in Paths |-> Absent]
    /\ exit_status = -1

MIdle ==
    /\ pc = "off"
    /\ run = NoRun
    /\ OIdle

TInit ==
    /\ RIdle
    /\ EIdle
    /\ MIdle
    /\ login_tokens \in TokenSeqs(MaxTokens)
    /\ \E sep \in Separators : login_cmd = Join(login_tokens, sep)
    /\ argocd_args \in ExtraArgs
    /\ cmd = <<>>

Translate ==
    /\ cmd = <<>>
    /\ cmd' = BuildCmd(login_cmd, argocd_args)
    /\ UNCHANGED <<login_tokens, login_cmd, argocd_args>>
    /\ UNCHANGED <<rvars, evars, mvars, ovars>>

TNext == Translate

SpecTranslate == TInit /\ [][TNext]_vars

---------------------------------------------------------------------------
(* Claims about the translator, stated on the tokens the command was
   written from (login_tokens), not on the code's own parse. *)

\* index of the first `login` token, 0 when there is none
LoginIdx ==
    IF \E k \in 1..Len(login_tokens) : login_tokens[k] = S_login
    THEN CHOOSE k \in 1..Len(login_tokens) :
             /\ login_tokens[k] = S_login
             /\ \A j \in 1..(k - 1) : login_tokens[j] # S_login
    ELSE 0

\* the token after `login` exists and does not start with --
HasUrl ==
    /\ LoginIdx > 0
    /\ LoginIdx + 1 <= Len(login_tokens)
    /\ ~StartsWith(login_tokens[LoginIdx + 1], S_dashdash)

\* first index of the candidate flags
FlagStart == LoginIdx + (IF HasUrl THEN 2 ELSE 1)

IsForwardedFlag(j) ==
    LoginIdx > 0 /\ j >= FlagStart /\ login_tokens[j] \in ALLOWED_GLOBAL_FLAGS

IsTokenValue(j) ==
    /\ LoginIdx > 0
    /\ j - 1 >= FlagStart
    /\ login_tokens[j - 1] = S_auth_token
    /\ ~StartsWith(login_tokens[j], S_dashdash)

\* the forwarded tokens among login_tokens[j..], in their order
RECURSIVE ForwardedFrom(_)
ForwardedFrom(j) ==
    IF j > Len(login_tokens) THEN <<>>
    ELSE (IF IsForwardedFlag(j) \/ IsTokenValue(j) THEN <<login_tokens[j]>> ELSE <<>>)
         \o ForwardedFrom(j + 1)

\* the part of cmd that follows ['argocd'] + argocd_args
CmdRest == SubSeq(cmd, 2 + Len(argocd_args), Len(cmd))

\* C4: every token of the argv that comes from the login command is the server
\* URL right after --server, an allow-listed flag, or the value directly after
\* --auth-token; no flag outside the allow-list is in the argv.
C4_OnlyAllowListed ==
    cmd # <<>> =>
        LET rest == CmdRest
            hasServer == Len(rest) >= 2 /\ rest[1] = S_server
            first == IF hasServer THEN 3 ELSE 1
        IN  /\ SubSeq(cmd, 1, 1 + Len(argocd_args)) = <<S_argocd>> \o argocd_args
            /\ hasServer => HasUrl /\ rest[2] = login_tokens[LoginIdx + 1]
            /\ \A k \in first..Len(rest) :
                   \/ rest[k] \in ALLOWED_GLOBAL_FLAGS
                   \/ /\ k > first
                      /\ rest[k - 1] = S_auth_token
                      /\ ~StartsWith(rest[k], S_dashdash)
            /\ \A k \in 1..Len(rest) : rest[k] # S_sso

\* C4 witness: an argv was built from a command with a server URL, --sso and
\* an allow-listed flag after `login`.
C4_Witness ==
    /\ cmd # <<>>
    /\ \E k \in 1..Len(login_tokens) : k > LoginIdx /\ LoginIdx > 0 /\ login_tokens[k] = S_sso
    /\ HasUrl
    /\ \E k \in 1..Len(login_tokens) : IsForwardedFlag(k)
    /\ Len(CmdRest) >= 3

\* `--auth-token` at j followed by a token, after the `login` token
AuthTokenAt(j) ==
    /\ LoginIdx > 0
    /\ j > LoginIdx
    /\ j + 1 <= Len(login_tokens)
    /\ login_tokens[j] = S_auth_token

AuthTokenForwarded(j) ==
    \E k \in 1..(Len(cmd) - 1) :
        cmd[k] = S_auth_token /\ cmd[k + 1] = login_tokens[j + 1]

\* C5 as stated: whenever `--auth-token TOK` follows `login`, for every token
\* TOK, the argv holds --auth-token immediately followed by TOK.
C5_AsStated ==
    cmd # <<>> =>
        \A j \in 1..Len(login_tokens) : AuthTokenAt(j) => AuthTokenForwarded(j)

\* C5 amended: the same for every TOK that does not start with -- (a token
\* that is itself a flag is not taken as the value).
C5_TokenFollowsAuthToken ==
    cmd # <<>> =>
        \A j \in 1..Len(login_tokens) :
            AuthTokenAt(j) /\ ~StartsWith(login_tokens[j + 1], S_dashdash)
                => AuthTokenForwarded(j)

C5_Witness ==
    /\ cmd # <<>>
    /\ \E j \in 1..Len(login_tokens) :
           /\ AuthTokenAt(j)
           /\ login_tokens[j + 1] = S_TOK
           /\ AuthTokenForwarded(j)

\* C6: argv = [argocd] + extraArgs + [--server, url] (exactly when the token
\* after `login` exists and does not start with --) + the forwarded flags in
\* the order of the login command.
C6_ArgvShape ==
    cmd # <<>> =>
        cmd = <<S_argocd>> \o argocd_args
              \o (IF HasUrl THEN <<S_server, login_tokens[LoginIdx + 1]>> ELSE <<>>)
              \o (IF LoginIdx > 0 THEN ForwardedFrom(FlagStart) ELSE <<>>)

\* C6 witness: the spec's example.
C6_Witness ==
    /\ login_tokens = <<S_login, S_host, S_sso, S_grpc_web>>
    /\ login_cmd = Join(login_tokens, <<" ">>)
    /\ argocd_args = <<S_app, S_list>>
    /\ cmd = <<S_argocd, S_app, S_list, S_server, S_host, S_grpc_web>>

---------------------------------------------------------------------------
(* Specification of the resolver: a store and a query are drawn, and
   validate_cluster is applied. *)

NameUniverse ==
    {S_prod, S_Prod, S_PROD, S_prd, S_abcde, S_abcxy, S_abc, S_abd}

Queries == NameUniverse \cup {S_pROD, S_ab, S_zz, S_p}

\* the login command of DEFAULT_CONFIG's shape
DefaultCommand ==
    Join(<<S_argocd, S_login, S_host, S_sso, S_skip_test_tls, S_grpc_web, S_insecure>>,
         <<" ">>)

\* the sequences of up to n distinct names
RECURSIVE NameSeqs(_)
NameSeqs(n) ==
    IF n = 0 THEN {<<>>}
    ELSE LET shorter == NameSeqs(n - 1)
         IN  shorter \cup
             {Append(t, v) : t \in {u \in shorter : Len(u) = n - 1},
                             v \in NameUniverse}

Distinct(seq) == \A j, k \in 1..Len(seq) : j # k => seq[j] # seq[k]

\* the stores: non-empty (load_config refuses an empty one), names unique
Stores ==
    {[k \in 1..Len(t) |-> [name |-> t[k], command |-> DefaultCommand]] :
         t \in {u \in NameSeqs(MaxNames) : u # <<>> /\ Distinct(u)}}

RInit ==
    /\ TIdle
    /\ EIdle
    /\ MIdle
    /\ config \in Stores
    /\ query \in Queries
    /\ resolved = [status |-> "none"]

Resolve ==
    /\ resolved.status = "none"
    /\ resolved' = validate_cluster(config, query)
    /\ UNCHANGED <<config, query>>
    /\ UNCHANGED <<tvars, evars, mvars, ovars>>

RNext == Resolve

SpecResolve == RInit /\ [][RNext]_vars

---------------------------------------------------------------------------
(* Claims about the resolver *)

ConfigNames == {config[k].name : k \in 1..Len(config)}

\* the configured names equal to the query when case is ignored
CaseVariants == {n \in ConfigNames : Lower(n) = Lower(query)}

\* C9 as stated: for every configured name N and every case-scrambled variant
\* Q of N, validate_cluster(Q) returns N.
C9_AsStated ==
    resolved.status # "none" =>
        \A n \in CaseVariants : resolved.status = "ok" /\ resolved.name = n

\* C9 amended: validate_cluster(Q) returns N for every configured name N that
\* Q is a case variant of, provided no other configured name equals N when
\* case is ignored; it is found by the exact step when Q = N and by the
\* case-insensitive step otherwise, never by fuzzy matching; and a configured
\* Q is always returned by the exact step.
C9_CaseVariantResolves ==
    resolved.status # "none" =>
        /\ \A n \in CaseVariants :
               CaseVariants = {n} =>
                   /\ resolved.status = "ok"
                   /\ resolved.name = n
                   /\ resolved.how = (IF query = n THEN "exact" ELSE "case-insensitive")
        /\ query \in ConfigNames =>
               /\ resolved.status = "ok"
               /\ resolved.name = query
               /\ resolved.how = "exact"

\* C9 witness: a case-scrambled query was resolved to the configured name while
\* another configured name would have matched fuzzily.
C9_Witness ==
    /\ resolved.status = "ok"
    /\ query = S_pROD
    /\ config = <<[name |-> S_prd, command |-> DefaultCommand],
                  [name |-> S_Prod, command |-> DefaultCommand]>>
    /\ resolved.name = S_Prod
    /\ resolved.how = "case-insensitive"

\* the configured names whose similarity to the query reaches the threshold
Reaching == {k \in 1..Len(config) : RatioGE(ChoiceRatio(query, config[k].name), Threshold)}

\* the first name in store order among those with the maximum ratio
FirstBest ==
    CHOOSE k \in Reaching :
        \A j \in Reaching :
            \/ RatioGT(ChoiceRatio(query, config[k].name), ChoiceRatio(query, config[j].name))
            \/ /\ ~RatioGT(ChoiceRatio(query, config[j].name), ChoiceRatio(query, config[k].name))
               /\ k <= j

\* the last name in store order among the case variants of the query
LastCaseVariant ==
    CHOOSE k \in 1..Len(config) :
        /\ config[k].name \in CaseVariants
        /\ \A j \in (k + 1)..Len(config) : config[j].name \notin CaseVariants

\* C10 as stated: no name reaching 0.6 gives the not-found error; otherwise
\* the name with the maximum ratio is returned, ties to the first in store
\* order.
C10_AsStated ==
    resolved.status # "none" =>
        IF Reaching = {}
        THEN resolved.status = "ConfigurationError"
        ELSE resolved.status = "ok" /\ resolved.name = config[FirstBest].name

\* C10 amended: no name reaching 0.6 gives the not-found error; otherwise a
\* name with the maximum ratio is returned: the query itself when it is
\* configured, else the last configured name equal to it when case is ignored,
\* else (fuzzy step) the first name in store order among the best.
C10_BestMatchOrNotFound ==
    resolved.status # "none" =>
        IF Reaching = {}
        THEN resolved.status = "ConfigurationError"
        ELSE /\ resolved.status = "ok"
             /\ \A k \in 1..Len(config) :
                    ~RatioGT(ChoiceRatio(query, config[k].name),
                             ChoiceRatio(query, resolved.name))
             /\ resolved.name =
                    (IF query \in ConfigNames THEN query
                     ELSE IF CaseVariants # {} THEN config[LastCaseVariant].name
                     ELSE config[FirstBest].name)

\* C10 witness: two names tie at the best ratio and the first is returned by
\* the fuzzy step.
C10_Witness ==
    /\ resolved.status = "ok"
    /\ resolved.how = "fuzzy"
    /\ query = S_ab
    /\ Keys(config) = <<S_abd, S_abc>>
    /\ resolved.name = S_abd

\* the similarity is exactly 0.6 and the name is accepted
C10_BoundaryAccepted ==
    /\ resolved.status = "ok"
    /\ resolved.how = "fuzzy"
    /\ ChoiceRatio(query, resolved.name) = [n |-> 6, d |-> 10]

---------------------------------------------------------------------------
(* Specification of the executor: execute_argocd_command is called again
   and again on one manager, with every answer of the operator and every
   behaviour of the subprocess. *)

ExecStores ==
    {<<[name |-> S_Prod_East,
        command |-> Join(<<S_argocd, S_login, S_host, S_sso, S_grpc_web>>, <<" ">>)],
       [name |-> S_dev,
        command |-> Join(<<S_argocd, S_login, S_sso, S_insecure>>, <<" ">>)]>>,
     <<[name |-> S_prod,
        command |-> Join(<<S_argocd, S_login, S_host, S_auth_token, S_TOK>>, <<" ">>)],
       [name |-> S_abc,
        command |-> Join(<<S_argocd, S_host>>, <<" ">>)]>>}

ExecQueries == {S_Prod_East, S_prod_east, S_prod, S_dev, S_abc, S_zz}

Accepts == {Line(S_y), Line(S_yes), Line(S_Y), Line(S_Yes_padded)}
Declines == {Line(<<>>), Line(S_n), Line(S_no), Line(S_maybe)}
Answers == Accepts \cup Declines \cup {EOF}

Stdouts == {<<>>, S_empty_list, S_diff_output, S_blank}
Stderrs == {<<>>, S_Unauthenticated, S_dial_refused, S_not_found_padded}

ProcOutcomes ==
    {Exited(c, out, err) : c \in {0, 1}, out \in Stdouts, err \in Stderrs}
    \cup {TimedOut, NotStarted}

EInit ==
    /\ TIdle
    /\ config \in ExecStores
    /\ query = <<>>
    /\ resolved = [status |-> "none"]
    /\ EIdle
    /\ MIdle

\* the manager is idle: no call has been made since the caller took the last
\* result
ExecIdle == result.kind = "none"

ExecuteCommand ==
    /\ ExecIdle
    /\ \E q \in ExecQueries, args \in ExtraArgs :
        \E prep \in {Prepare(config, q, args)} :
        \E ans \in Answers, p \in ProcOutcomes :
        \E r \in {TryBlock(prep, confirmed_production, S_30, ans, p)} :
            /\ query' = q
            /\ argocd_args' = args
            /\ resolved' = r.resolved
            /\ cmd' = r.cmd
            /\ confirmed_production' = r.confirmed
            /\ prompted' = r.prompted
            /\ answer' = (IF r.prompted THEN ans ELSE Unasked)
            /\ launched' = r.launched
            /\ proc' = (IF r.launched # <<>> THEN p ELSE [kind |-> "none"])
            /\ result' = r.result
            /\ UNCHANGED <<config, login_tokens, login_cmd>>
            /\ UNCHANGED <<mvars, ovars>>

\* the caller takes the result; the manager, with its confirmation set, is
\* ready for the next call
TakeResult ==
    /\ ~ExecIdle
    /\ query' = <<>>
    /\ resolved' = [status |-> "none"]
    /\ argocd_args' = <<>>
    /\ cmd' = <<>>
    /\ prompted' = FALSE
    /\ answer' = Unasked
    /\ launched' = <<>>
    /\ proc' = [kind |-> "none"]
    /\ result' = [kind |-> "none"]
    /\ UNCHANGED <<config, confirmed_production, login_tokens, login_cmd>>
    /\ UNCHANGED <<mvars, ovars>>

ENext == ExecuteCommand \/ TakeResult

SpecExec == EInit /\ [][ENext]_vars

---------------------------------------------------------------------------
(* Claims about the executor *)

\* C1: a call for a cluster whose resolved name contains "prod" and that is
\* not yet confirmed asks the operator first; when the operator declines, the
\* call fails with the user-abort error, the confirmation set is unchanged and
\* no subprocess is launched.
C1_DeclineAbortsBeforeLaunch ==
    [][(/\ ExecIdle
        /\ result'.kind # "none"
        /\ resolved'.status = "ok"
        /\ Contains(Lower(resolved'.name), S_prod)
        /\ resolved'.name \notin confirmed_production)
       => /\ prompted'
          /\ answer' \in Declines =>
                 /\ result' = Raised(S_UserAborted)
                 /\ confirmed_production' = confirmed_production
                 /\ launched' = <<>>]_vars

\* C1 witness: the spec's scenario, "Prod-East" declined with empty input.
C1_Witness ==
    /\ resolved.status = "ok"
    /\ resolved.name = S_Prod_East
    /\ prompted
    /\ answer = Line(<<>>)
    /\ result = Raised(S_UserAborted)
    /\ confirmed_production = {}
    /\ launched = <<>>

NonZeroExit == proc.kind = "exit" /\ proc.code # 0

\* C7 as stated: a non-zero exit with non-empty stdout returns that stdout and
\* raises nothing; a non-zero exit raises only when stdout is empty.
C7_AsStated ==
    NonZeroExit =>
        /\ proc.stdout # <<>> => result = Returned(proc.stdout)
        /\ result.kind = "CommandExecutionError" => proc.stdout = <<>>

\* C7 amended: a non-zero exit whose stdout is non-empty once surrounding
\* whitespace is stripped returns that stripped stdout and raises nothing,
\* whatever stderr holds; a non-zero exit raises CommandExecutionError exactly
\* when stdout is empty or all whitespace.
C7_StdoutWinsOverExitStatus ==
    NonZeroExit =>
        /\ Strip(proc.stdout) # <<>> => result = Returned(Strip(proc.stdout))
        /\ result.kind = "CommandExecutionError" <=> Strip(proc.stdout) = <<>>

C7_Witness ==
    /\ NonZeroExit
    /\ proc.stdout = S_diff_output
    /\ proc.stderr = S_Unauthenticated
    /\ result = Returned(Strip(S_diff_output))

\* the message a failed subprocess leaves: its stderr, 'Unknown error' if none
StderrOrUnknown ==
    IF Strip(proc.stderr) # <<>> THEN Strip(proc.stderr) ELSE S_UnknownError

\* the server URL parsed from the resolved connection's login command
ParsedUrl == ParseConnection(Command(config, resolved.name)).server_url

\* C8: a non-zero exit with empty stdout raises CommandExecutionError with the
\* stderr in which every occurrence of the server URL is replaced by the
\* placeholder and nothing else is altered; with no server URL parsed the
\* message is the stderr unchanged.
C8_AsStated ==
    NonZeroExit /\ result.kind = "CommandExecutionError" =>
        result.msg = (IF ParsedUrl = None THEN StderrOrUnknown
                      ELSE ReplaceNonEmpty(StderrOrUnknown, ParsedUrl[1], S_placeholder))

---------------------------------------------------------------------------
(* Specification of one CLI process: a manager is constructed, one
   subcommand runs its flow, and the process ends. *)

MainStore ==
    <<[name |-> S_Prod_East,
       command |-> Join(<<S_argocd, S_login, S_host, S_sso, S_grpc_web>>, <<" ">>)],
      [name |-> S_dev,
       command |-> Join(<<S_argocd, S_login, S_sso, S_insecure>>, <<" ">>)],
      [name |-> S_abc,
       command |-> Join(<<S_argocd, S_login, S_host, S_insecure>>, <<" ">>)]>>

\* the cluster argument of a single-cluster subcommand
Targets == {S_Prod_East, S_prod_east, S_dev, S_abc, S_zz}

\* the clusters the patterns of `app overview` expand to: configured names,
\* without duplicates
OverviewClusters == {<<S_Prod_East>>, <<S_abc>>, <<S_dev, S_abc>>}

MainAnswers == {Line(S_y), Line(<<>>), EOF}

MainProcs ==
    {Exited(0, S_doc, <<>>),
     Exited(0, S_doc_one, <<>>),
     Exited(0, S_doc_two, <<>>),
     Exited(0, S_doc_dup, <<>>),
     Exited(0, S_empty_list, <<>>),
     Exited(0, <<>>, <<>>),
     Exited(0, S_diff_output, <<>>),
     Exited(1, S_diff_output, S_Unauthenticated),
     Exited(1, <<>>, S_Unauthenticated),
     Exited(1, <<>>, S_invalid_grant),
     Exited(1, <<>>, S_not_found_padded),
     TimedOut}

\* what subprocess.run(parts) of the login command can do: end with some exit
\* status (not looked at), fail to start, or never exit on its own
LoginProcs == {"exited", "oserror", "hangs"}

\* the arguments of `app set-target`: the cluster patterns, --repo and --index
\* (--sync and --show-diff are not given)
ClusterPatterns == {<<S_abc>>, <<S_prod_east>>, <<S_zz>>, <<S_dev, S_a_star, S_abc>>}
Repos == {None, Some(S_r2_slash), Some(S_r9)}
SourceIndexes == {None, Some(0), Some(2)}

\* what the operator types at the chooser
ChooserInputs ==
    {EOF, Line(<<>>), Line(S_s), Line(S_Skip), Line(S_no), Line(S_1), Line(S_7), Line(S_x)}

\* what a kubectl run can do: exit 0, exit non-zero, fail to start, or never
\* exit on its own
PatchProcs == {"exit0", "exit1", "oserror", "hangs"}

\* the positions at which the process is running the manager
Running ==
    {"sync_confirm", "exec", "login", "poll", "select", "choose", "set", "patch", "patch2",
     "returned", "hung"}

\* the status the interpreter exits with once run() returned or raised
ExitStatus(outcome) ==
    IF outcome.kind = "raised"
    THEN IF outcome.exc = "KeyboardInterrupt" THEN 130 ELSE 1
    ELSE 0

Init ==
    /\ TIdle
    /\ query = <<>>
    /\ resolved = [status |-> "none"]
    /\ EIdle
    /\ config = MainStore
    /\ pc = "idle"
    /\ run = NoRun
    /\ allow_patch \in BOOLEAN
    /\ config_path = None
    /\ disk = [p \in Paths |-> IF p = DEFAULT_CONFIG_PATH THEN File(MainStore) ELSE Absent]
    /\ exit_status = -1

\* what an execute_argocd_command call that ended as e leaves to be seen
\* here: whether it asked the production question, and ans if it was read
LastCall(e, ans) ==
    /\ prompted' = e.prompted
    /\ answer' = (IF e.prompted THEN ans ELSE Unasked)
    /\ UNCHANGED <<launched, proc, result>>

\* cli.py 154-182: a subcommand that calls one guarded operation
StartOp ==
    /\ pc = "idle"
    /\ \E op \in GuardedOps, t \in Targets :
           /\ run' = StartGuard([NoRun EXCEPT !.flow = "op", !.target = t], op)
           /\ pc' = IF op = "sync_application" THEN "sync_confirm" ELSE "exec"
    /\ UNCHANGED <<tvars, rvars, evars, ovars>>

\* cli.py 209-241: `app overview` starts on its first cluster
StartOverview ==
    /\ pc = "idle"
    /\ \E cs \in OverviewClusters :
           run' = StartGuard([NoRun EXCEPT !.flow = "overview", !.phase = "first",
                                           !.quiet = TRUE,
                                           !.target = Head(cs), !.rest = Tail(cs)],
                             "get_application_status")
    /\ pc' = "exec"
    /\ UNCHANGED <<tvars, rvars, evars, ovars>>

\* sync_application, lines 368-370: the "Sync?" question (default yes)
SyncConfirm ==
    /\ pc = "sync_confirm"
    /\ \E ans \in MainAnswers :
       \E nxt \in {IF ans = EOF THEN GuardReturn(run, Escaped("EOFError"))
                   ELSE IF confirm_action(ans, TRUE) THEN At("exec", run)
                   ELSE GuardReturn(run, NoneResult(FALSE))} :
           /\ pc' = nxt.pc
           /\ run' = nxt.run
    /\ UNCHANGED <<tvars, rvars, evars, ovars>>

\* one execute_argocd_command call of a guard loop and what the loop does
\* with its result
GuardedCall ==
    /\ pc = "exec"
    /\ \E ans \in MainAnswers, p \in MainProcs :
       \E e \in {execute_argocd_command(config, confirmed_production, run.target,
                                        OpArgs(run.op), OpTimeout(run.op), ans, p)} :
       \E nxt \in {AfterGuardedCall(run, e)} :
           /\ pc' = nxt.pc
           /\ run' = nxt.run
           /\ confirmed_production' = e.confirmed
           /\ LastCall(e, ans)
    /\ UNCHANGED <<tvars, rvars, ovars>>

\* _handle_oidc_login, lines 227-251: the stored login command is run
RunLogin ==
    /\ pc = "login"
    /\ \E lp \in LoginProcs :
       \E nxt \in {IF ~HasLoginCommand(config, run.target) THEN LoginReturn(run, FALSE)
                   ELSE IF lp = "oserror"
                   THEN LoginReturn([run EXCEPT !.login_found = TRUE], FALSE)
                   \* line 243 passes no timeout: the call waits for the child
                   ELSE IF lp = "hangs"
                   THEN At("hung", [run EXCEPT !.login_found = TRUE, !.logins = @ + 1])
                   ELSE At("poll", [run EXCEPT !.login_found = TRUE,
                                               !.logins = @ + 1, !.polls = 0])} :
           /\ pc' = nxt.pc
           /\ run' = nxt.run
    /\ UNCHANGED <<tvars, rvars, evars, ovars>>

\* _handle_oidc_login, lines 258-281: one poll
Poll ==
    /\ pc = "poll"
    /\ \E ans \in MainAnswers, p \in MainProcs :
       \E e \in {execute_argocd_command(config, confirmed_production, run.target,
                                        <<S_proj, S_list, S_output, S_json>>, S_5, ans, p)} :
       \E a \in {AfterPoll(run, confirmed_production, e)} :
           /\ pc' = a.next.pc
           /\ run' = a.next.run
           /\ confirmed_production' = a.confirmed
           /\ LastCall(e, ans)
    /\ UNCHANGED <<tvars, rvars, ovars>>

\* cli.py 375-409: `app set-target` expands its patterns and starts on the
\* first cluster
StartRevision ==
    /\ pc = "idle"
    /\ \E ps \in ClusterPatterns, dry \in BOOLEAN :
       \E clusters \in {Deduplicate(ExpandPatterns(Keys(config), ps), {})} :
       \E nxt \in {IF clusters = <<>>
                   THEN At("done", [NoRun EXCEPT !.flow = "revision",
                                                 !.outcome = NoneResult(TRUE)])
                   ELSE StartCluster(config, [NoRun EXCEPT !.flow = "revision",
                                                           !.clusters = clusters,
                                                           !.rest = clusters,
                                                           !.dry_run = dry])} :
           /\ pc' = nxt.pc
           /\ run' = nxt.run
    /\ UNCHANGED <<tvars, rvars, evars, ovars>>

\* lines 429-438: the source to update is resolved from repo and source_index
\* (the command line's --repo and --index, the same for every cluster of the
\* run, are drawn where they are first read)
SelectSource ==
    /\ pc = "select"
    /\ \E rp \in (IF run.args_read THEN {run.repo} ELSE Repos),
          si \in (IF run.args_read THEN {run.source_index} ELSE SourceIndexes) :
       \E nxt \in {ResolveSource(run, rp, si)} :
           /\ pc' = nxt.pc
           /\ run' = nxt.run
    /\ UNCHANGED <<tvars, rvars, evars, ovars>>

\* cli.py 410-413: set_application_target_revision has returned to the loop
NextTarget ==
    /\ pc = "returned"
    /\ \E nxt \in {AfterReturn(config, run)} :
           /\ pc' = nxt.pc
           /\ run' = nxt.run
    /\ UNCHANGED <<tvars, rvars, evars, ovars>>

\* lines 448-462: the operator answers the chooser
Choose ==
    /\ pc = "choose"
    /\ \E a \in ChooserInputs :
       \E nxt \in {AfterChoice(run, a)} :
           /\ pc' = nxt.pc
           /\ run' = nxt.run
    /\ UNCHANGED <<tvars, rvars, evars, ovars>>

\* lines 476-487: the primary mutation, `argocd app set`
PrimarySet ==
    /\ pc = "set"
    /\ \E ans \in MainAnswers, p \in MainProcs :
       \E e \in {execute_argocd_command(config, confirmed_production, run.target,
                                        SetCmd(run), S_30, ans, p)} :
       \E nxt \in {AfterPrimary(run, allow_patch, e, p)} :
           /\ pc' = nxt.pc
           /\ run' = nxt.run
           /\ confirmed_production' = e.confirmed
           /\ LastCall(e, ans)
    /\ UNCHANGED <<tvars, rvars, ovars>>

\* lines 489-507: the fallback, `kubectl patch`
Patch ==
    /\ pc = "patch"
    /\ \E kp \in PatchProcs :
       \E nxt \in {AfterPatch(run, PatchCmd(run), kp, FALSE)} :
           /\ pc' = nxt.pc
           /\ run' = nxt.run
    /\ UNCHANGED <<tvars, rvars, evars, ovars>>

\* lines 508-521: the second kubectl run
PatchAgain ==
    /\ pc = "patch2"
    /\ \E kp \in PatchProcs :
       \E nxt \in {AfterPatch(run, SecondPatchCmd(run), kp, TRUE)} :
           /\ pc' = nxt.pc
           /\ run' = nxt.run
    /\ UNCHANGED <<tvars, rvars, evars, ovars>>

\* the operator presses Ctrl-C: KeyboardInterrupt is no Exception, so no
\* handler of the manager or of run() catches it, and the stack unwinds (the
\* locals are gone)
Interrupt ==
    /\ pc \in Running
    /\ pc' = "done"
    /\ run' = [NoRun EXCEPT !.flow = run.flow, !.outcome = Escaped("KeyboardInterrupt")]
    /\ UNCHANGED <<tvars, rvars, evars, ovars>>

\* argo-manager.py 764-769: main() is run(); the process ends when it
\* returns or raises
Exit ==
    /\ pc = "done"
    /\ pc' = "exited"
    /\ exit_status' = ExitStatus(run.outcome)
    /\ run' = [NoRun EXCEPT !.flow = run.flow, !.outcome = run.outcome]
    /\ UNCHANGED <<tvars, rvars, evars, allow_patch, config_path, disk>>

Next ==
    \/ StartOp
    \/ StartOverview
    \/ SyncConfirm
    \/ GuardedCall
    \/ RunLogin
    \/ Poll
    \/ StartRevision
    \/ SelectSource
    \/ NextTarget
    \/ Choose
    \/ PrimarySet
    \/ Patch
    \/ PatchAgain
    \/ Interrupt
    \/ Exit

Spec == Init /\ [][Next]_vars

\* the steps the program takes by itself once a subcommand is given: the
\* operator answers the questions asked, and a subprocess run without a
\* timeout ends if it ends on its own
ProgramStep ==
    \/ StartOp
    \/ StartOverview
    \/ SyncConfirm
    \/ RunLogin
    \/ StartRevision
    \/ SelectSource
    \/ NextTarget
    \/ Choose
    \/ Patch
    \/ PatchAgain
    \/ Exit

\* the positions at which execute_argocd_command is being called
InCall == pc \in {"exec", "poll", "set"}

\* The process under its scheduling: single-threaded and synchronous, the
\* program goes on whenever it can, and the operator ends up giving the
\* chooser an answer it accepts. An execute_argocd_command call does not last
\* for ever: the production question is answered, and line 202 gives the
\* subprocess a timeout (GuardedCall, Poll and PrimarySet are enabled
\* wherever InCall holds, so this is their weak fairness). No interrupt is
\* promised.
LiveSpec ==
    /\ Init
    /\ [][Next]_vars
    /\ WF_vars(ProgramStep)
    /\ WF_vars(Choose /\ pc' # "choose")
    /\ []<>(~InCall)

---------------------------------------------------------------------------
(* Claims about the guard *)

\* a single guarded operation has returned to the CLI (it was not interrupted
\* by the operator)
OpDone == pc = "done" /\ run.flow = "op" /\ run.guard_result.kind # "none"

FirstFailureIsAuth == run.first_msg # None /\ IsAuthFailure(run.first_msg[1])

\* C2 as stated: the call is re-issued exactly once when the first failure's
\* message matches an authentication pattern, and not at all when it matches
\* none.
C2_AsStated ==
    OpDone /\ run.first_msg # None =>
        run.op_calls = (IF FirstFailureIsAuth THEN 2 ELSE 1)

\* C2 amended: the call is re-issued exactly once when the first failure's
\* message matches an authentication pattern and the login-recovery cycle it
\* triggers succeeds, and not at all otherwise (the message matches no
\* pattern, or the recovery fails).
C2_RetryOnceAfterRecovery ==
    OpDone /\ run.first_msg # None =>
        /\ run.op_calls =
               (IF FirstFailureIsAuth /\ run.login_result = "true" THEN 2 ELSE 1)
        /\ run.op_launches <= run.op_calls
        /\ run.op_calls = 2 => run.op_launches = 2

C2_Witness ==
    /\ OpDone
    /\ run.op = "sync_application"
    /\ FirstFailureIsAuth
    /\ run.login_result = "true"
    /\ run.op_calls = 2
    /\ run.polls = 3

\* C3: in every CLI flow, `app overview` included, for one cluster and one
\* application-status request the `app get` call is issued at most twice, the
\* stored login command is run at most once, and only after a failure
\* classified as an authentication failure.
C3_AsStated ==
    run.flow = "overview" /\ run.phase \in {"first", "second"} =>
        /\ run.status_calls <= 2
        /\ run.logins <= 1
        /\ run.logins > 0 => run.auth_seen

---------------------------------------------------------------------------
(* Claims about set_application_target_revision *)

InRevision == run.flow = "revision"

\* set_application_target_revision has returned a value
RevisionReturned == InRevision /\ pc = "returned" /\ run.outcome.kind = "value"

\* the status was fetched and the source to update is settled
SourceSettled ==
    /\ run.guard_result.kind = "value"
    /\ run.guard_result.truthy
    /\ Len(run.sources) > 1 => run.resolved_index # None

\* C11 as stated: a call with dry_run = true performs no mutation call and
\* returns true.
C11_AsStated ==
    RevisionReturned /\ run.dry_run =>
        run.mutations = <<>> /\ run.outcome.truthy

\* C11 amended: a call with dry_run = true never performs a mutation call,
\* and it returns true exactly when the application status could be fetched
\* and, for an application with several sources, a source was selected; it
\* returns false when the status cannot be fetched or the chooser is skipped.
C11_DryRunMutatesNothing ==
    InRevision /\ run.dry_run =>
        /\ run.mutations = <<>>
        /\ run.set_calls = 0
        /\ pc \notin {"set", "patch", "patch2"}
        /\ RevisionReturned => (run.outcome.truthy <=> SourceSettled)

C11_Witness ==
    /\ RevisionReturned
    /\ run.dry_run
    /\ run.outcome.truthy
    /\ Len(run.sources) = 2
    /\ run.resolved_index = Some(1)
    /\ run.mutations = <<>>

\* the answers C12 names: "s", skip, n, no, empty input, end of input
SkipAnswers == {Line(S_s), Line(S_skip), Line(S_n), Line(S_no), Line(<<>>), EOF}

\* C12: when the application has more than one source, no source index is
\* given, no source matches the repo and the operator answers the chooser
\* with "s" (or skip, n, no, empty input, end of input), the function returns
\* false and no mutation call is issued.
C12_SkipReturnsFalseWithoutMutation ==
    InRevision /\ run.choice \in SkipAnswers =>
        /\ Len(run.sources) > 1
        /\ run.source_index = None
        /\ Truthy(run.repo) => MatchRepo(run.sources, run.repo[1]) = None
        /\ pc = "returned"
        /\ run.outcome = Value(FALSE)
        /\ run.mutations = <<>>
        /\ run.set_calls = 0

C12_Witness ==
    /\ RevisionReturned
    /\ run.choice = Line(S_s)
    /\ run.repo = Some(S_r9)
    /\ ~run.dry_run
    /\ run.outcome = Value(FALSE)

\* the mutation subprocesses that ran kubectl
PatchRuns == {k \in 1..Len(run.mutations) : run.mutations[k].argv[1] = S_kubectl}

\* C13: the patch binary is invoked only when the fallback was enabled
\* (allow_patch) and the primary `app set` call has just failed; with the
\* fallback disabled a primary failure makes the function return false with
\* no further external call.
C13_PatchOnlyWhenAllowed ==
    InRevision =>
        /\ (PatchRuns # {} \/ pc \in {"patch", "patch2"}) =>
               /\ allow_patch
               /\ run.set_result = "failed"
               /\ run.set_calls = 1
        /\ (run.set_result = "failed" /\ ~allow_patch) =>
               /\ pc = "returned"
               /\ run.outcome = Value(FALSE)
               /\ PatchRuns = {}
               /\ Len(run.mutations) <= 1

C13_Witness ==
    /\ RevisionReturned
    /\ allow_patch
    /\ run.set_result = "failed"
    /\ Len(run.mutations) = 2
    /\ PatchRuns = {2}
    /\ run.outcome = Value(TRUE)

\* C14: the function returns true only when some mutation attempt succeeded:
\* the `app set` subprocess was run and succeeded, or a patch subprocess was
\* run and succeeded (stated here for calls that are no dry run).
C14_AsStated ==
    RevisionReturned /\ ~run.dry_run /\ run.outcome.truthy =>
        \E k \in 1..Len(run.mutations) : run.mutations[k].zero

\* C15: the primary mutation runs through the guarded path: an `app set`
\* failure with an authentication-classified message triggers the login
\* recovery and the call is retried once before the failure is reported or
\* the fallback is considered.
C15_AsStated ==
    (InRevision /\ run.set_result = "failed" /\ IsAuthFailure(run.set_msg[1])) =>
        (run.login_caller = "primary" /\ (run.login_result = "true" => run.set_calls = 2))

\* the sources whose repository is repo, trailing slashes ignored
RepoHits(sources, repo) ==
    {i \in 1..Len(sources) :
        sources[i] # <<>> /\ RStripSlash(sources[i]) = RStripSlash(repo)}

\* the repo match is what is left to settle the source: an application with
\* several sources, a repo given and no explicit index
RepoMatchDecides ==
    /\ InRevision
    /\ run.args_read
    /\ Len(run.sources) > 1
    /\ Truthy(run.repo)
    /\ run.source_index = None

\* the chooser is or was presented in this call
ChooserPresented == pc = "choose" \/ run.choice # Unasked

\* C21: with no explicit source index and a repo given, the repo match
\* selects a source index only when exactly one source's repository equals
\* the repo (trailing slashes ignored); with several sources of which none or
\* more than one match, the chooser is presented and no index is picked
\* silently.
C21_AsStated ==
    RepoMatchDecides =>
        IF Cardinality(RepoHits(run.sources, run.repo[1])) = 1
        THEN ~ChooserPresented /\ run.resolved_index # None
                /\ run.resolved_index[1] + 1 \in RepoHits(run.sources, run.repo[1])
        ELSE ChooserPresented

\* the argv of a patch-binary call: `patch` of resource kind against the
\* application, with the body the resolved index calls for
PatchArgv(argv, kind) ==
    /\ SubSeq(argv, 1, 6) = <<S_kubectl, S_dash_n, S_ns_argocd, S_patch, kind, S_guestbook>>
    /\ IF run.resolved_index # None
       THEN SubSeq(argv, 7, Len(argv)) =
                <<S_type_json, S_dash_p,
                  S_json_patch_head \o Str(run.resolved_index[1]) \o S_json_patch_tail>>
       ELSE SubSeq(argv, 7, Len(argv)) = <<S_type, S_merge, S_dash_p, S_merge_patch>>

\* C22: with the fallback enabled and the primary call failed, at most two
\* patch-binary calls are issued: the first patches the full resource kind,
\* the second, issued only if the first failed, patches the alternate
\* resource-name spelling; the patch is an index-addressed JSON replace when a
\* source index was resolved and a merge patch otherwise; the function
\* returns true if either call succeeds and false if both fail.
C22_AsStated ==
    (InRevision /\ PatchRuns # {}) =>
        /\ Cardinality(PatchRuns) <= 2
        /\ \A k \in PatchRuns :
               IF k = Len(run.mutations) - Cardinality(PatchRuns) + 1
               THEN PatchArgv(run.mutations[k].argv, S_applications_crd)
               ELSE /\ PatchArgv(run.mutations[k].argv, S_applications)
                    /\ ~run.mutations[k - 1].zero
        /\ RevisionReturned =>
               (run.outcome.truthy <=> \E k \in PatchRuns : run.mutations[k].zero)

\* the --source-position values of an argv
PositionsIn(argv) ==
    {ParseInt(argv[k + 1]) : k \in {j \in 1..(Len(argv) - 1) : argv[j] = S_source_position}}

\* C27: whenever --source-position P is passed to the controller, or
\* sources[i] is addressed in a fallback patch, the position is one of an
\* existing source of the fetched application: 1 <= P <= number of sources
\* (0 <= i < number of sources), whether the index came from the explicit
\* argument, the repo match or the chooser.
C27_AsStated ==
    InRevision =>
        \A m \in 1..Len(run.mutations) :
            /\ \A P \in PositionsIn(run.mutations[m].argv) : P \in 1..Len(run.sources)
            /\ (m \in PatchRuns /\ run.resolved_index # None) =>
                   run.resolved_index[1] \in 0..(Len(run.sources) - 1)

---------------------------------------------------------------------------
(* Claims about the login-recovery cycle *)

InOp == run.flow = "op"

\* C16: one login-recovery cycle runs the stored login command once, before
\* the first poll, then issues at most 15 polls; polling stops at the first
\* successful poll, after which the original call is retried once and its
\* result returned; if all 15 polls fail with authentication errors the cycle
\* fails and the original call is not retried.
C16_LoginOncePollsBounded ==
    InOp =>
        /\ run.logins <= 1
        /\ run.polls <= PollAttempts
        /\ run.polls > 0 => run.logins = 1
        /\ pc = "poll" => (run.logins = 1 /\ run.polls < PollAttempts
                           /\ run.login_result = "none")
        /\ run.login_result = "true" => (run.polls >= 1 /\ run.poll_msg = None)
        /\ (OpDone /\ run.login_result = "true") =>
               (run.op_calls = 2 /\ run.outcome = run.guard_result)
        /\ (OpDone /\ run.login_result = "false") => run.op_calls = 1
        /\ (run.polls = PollAttempts /\ run.poll_msg # None) =>
               run.login_result = "false"

C16_Witness ==
    /\ OpDone
    /\ run.polls = PollAttempts
    /\ run.poll_msg # None
    /\ run.login_result = "false"
    /\ run.op_calls = 1

\* the poll loop was left by a failed poll before its last attempt
PollingEndedEarly ==
    /\ InOp
    /\ run.login_result = "false"
    /\ run.polls >= 1
    /\ run.polls < PollAttempts
    /\ run.poll_msg # None

\* C17: polling stops early exactly on a non-authentication error: a poll
\* failure that the guard's case-insensitive pattern set classifies as an
\* authentication failure never ends polling before the 15th attempt, and any
\* other poll failure ends it at once with the cycle failing.
C17_AsStated ==
    /\ PollingEndedEarly => ~IsAuthFailure(run.poll_msg[1])
    /\ (InOp /\ pc = "poll" /\ run.polls >= 1) => IsAuthFailure(run.poll_msg[1])

\* C18: for every cluster query the resolver resolves to a configured
\* connection (exactly, case-insensitively or by fuzzy match), an
\* authentication failure of a guarded call triggers the login-recovery
\* cycle, and the cycle runs the stored login command of the resolved
\* connection.
C18_AsStated ==
    (OpDone /\ FirstFailureIsAuth /\ validate_cluster(config, run.target).status = "ok") =>
        (run.login_result # "none" /\ run.login_found)

\* C23: every subprocess invocation (controller call, login command,
\* fallback patch) is bounded by a timeout, so that, the operator answering
\* every prompt, every guarded operation and every
\* set_application_target_revision call terminates even when an external
\* process never exits on its own: the subcommand, a finite sequence of such
\* calls, comes to its end.
C23_AsStated == <>(pc = "exited")

---------------------------------------------------------------------------
(* Claims about the `app set-target` run *)

\* the run over the matched clusters has ended by itself: its loop is over or
\* an error left it
BatchEnded ==
    /\ InRevision
    /\ pc = "done"
    /\ run.clusters # <<>>
    /\ run.outcome # Escaped("KeyboardInterrupt")

\* the number of calls that returned true
RECURSIVE TrueCount(_)
TrueCount(returns) ==
    IF returns = <<>> THEN 0
    ELSE (IF Head(returns) THEN 1 ELSE 0) + TrueCount(Tail(returns))

\* C24: a multi-cluster set-target run processes every matched cluster
\* exactly once, in match order with duplicates removed, one after the other;
\* a failure on one cluster does not stop the remaining clusters, and the
\* success count reported equals the number of clusters whose
\* set_application_target_revision call returned true.
C24_AsStated ==
    /\ InRevision =>
           /\ \A i, j \in 1..Len(run.clusters) : run.clusters[i] = run.clusters[j] => i = j
           /\ run.visited = SubSeq(run.clusters, 1, Len(run.visited))
           /\ run.succeeded = TrueCount(run.returns)
    /\ BatchEnded =>
           /\ run.visited = run.clusters
           /\ run.outcome.kind = "value" => Len(run.returns) = Len(run.clusters)

---------------------------------------------------------------------------
(* Claims about the production-confirmation set *)

\* the cluster the running call is made for, as execute_argocd_command
\* resolves it (line 153)
CalledCluster == validate_cluster(config, run.target).name

\* this step is an execute_argocd_command call (and no interrupt of it)
CallStep == InCall /\ run'.outcome # Escaped("KeyboardInterrupt")

\* the operator accepted the production question in this step's call
QuestionAccepted ==
    prompted' /\ answer'.kind = "line" /\ confirm_action(answer', FALSE)

\* C25: the production-confirmation set starts empty and only grows; a
\* cluster name enters it only after the operator accepted a production
\* question for that cluster (or a login-recovery poll for it succeeded);
\* every member contains "prod" case-insensitively; and once a cluster is in
\* the set no later call asks the production question for it again.
C25_ConfirmationSetMonotone ==
    /\ confirmed_production = {}
    /\ [](\A n \in confirmed_production : Contains(Lower(n), S_prod))
    /\ [][/\ confirmed_production \subseteq confirmed_production'
          /\ \A n \in confirmed_production' \ confirmed_production :
                 /\ CallStep
                 /\ n = CalledCluster
                 /\ QuestionAccepted \/ (pc = "poll" /\ run'.login_result = "true")
          /\ (CallStep /\ prompted') => CalledCluster \notin confirmed_production]_vars

\* a confirmed cluster was called again (the retry after its login recovery)
\* and no question was asked
C25_Witness ==
    /\ InOp
    /\ run.target = S_Prod_East
    /\ confirmed_production = {S_Prod_East}
    /\ run.login_result = "true"
    /\ run.op_calls = 2
    /\ ~prompted

\* the login subprocess of the running recovery cycle has just been started
LoginStarted == pc = "poll" /\ run.polls = 0

\* C26: in every CLI flow the stored login command of a production-looking
\* cluster (name containing "prod") is run as a subprocess only if the
\* cluster is in the production-confirmation set; after the operator declined
\* the production question for a cluster, the subcommand starts no login
\* subprocess for it.
C26_AsStated ==
    (LoginStarted /\ Contains(Lower(run.target), S_prod)) =>
        run.target \in confirmed_production

\* a controller call that exits non-zero with empty stdout and a stderr
\* containing "Unauthenticated"
UnauthenticatedExit == Exited(1, <<>>, S_Unauthenticated)

\* the failure execute_argocd_command makes of it for the cluster called
\* (lines 210-216)
UnauthenticatedFailure ==
    RunOutcome(ParseConnection(Command(config, CalledCluster)).server_url,
               OpTimeout(run.op), UnauthenticatedExit)

\* C29: authentication classification does not depend on the shape of the
\* stored login command: with or without a parsable server URL, a controller
\* call that exits non-zero with empty stdout and a stderr containing
\* "Unauthenticated" is classified as an authentication failure by the
\* guarded operations and triggers the login-recovery cycle.
C29_AsStated ==
    (InOp /\ run.first_msg # None /\ run.op_launches >= 1
          /\ run.first_msg = Some(UnauthenticatedFailure.msg)) =>
        /\ run.auth_seen
        /\ run.login_caller = "guard"

\* the guarded read operations
ReadOps == {"list_projects", "list_applications", "get_application_status"}

\* C30: for a resolvable cluster name the guarded read operations end in
\* exactly one of two outcomes whatever the controller subprocess does: they
\* return the parsed document, or they report the failure and return None;
\* no error raised by handling the subprocess outcome escapes them.
C30_AsStated ==
    (InOp /\ pc = "done" /\ run.op \in ReadOps
          /\ validate_cluster(config, run.target).status = "ok") =>
        run.outcome.kind \in {"value", "None"}

---------------------------------------------------------------------------
(* Claims about the process *)

\* the core operation of the subcommand failed: the manager returned
\* None/False, or an error escaped it
CoreFailed ==
    \/ run.outcome.kind = "None"
    \/ InRevision /\ run.outcome = Value(FALSE)
    \/ run.outcome.kind = "raised" /\ run.outcome.exc # "KeyboardInterrupt"

Interrupted == run.outcome.kind = "raised" /\ run.outcome.exc = "KeyboardInterrupt"

\* C19: a subcommand whose core operation fails ends the process with a
\* non-zero exit status, success ends it with 0, and an operator interrupt
\* ends it with 130, distinct from the failure status.
C19_AsStated ==
    pc = "exited" =>
        /\ CoreFailed => exit_status \notin {0, 130}
        /\ Interrupted => exit_status = 130
        /\ (~CoreFailed /\ ~Interrupted) => exit_status = 0

---------------------------------------------------------------------------
(* Specification of the connection store: a manager is constructed on the
   files found, then connections are added, removed and imported
   (manager.py 53-129, config.py 17-42). *)

\* config.py 5-8 (the two names abbreviated)
DEFAULT_CONFIG ==
    <<[name |-> S_prod, command |-> DefaultCommand],
      [name |-> S_dev, command |-> DefaultCommand]>>

OtherCommand == Join(<<S_argocd, S_login, S_host, S_insecure>>, <<" ">>)

\* dict operations on a mapping kept in insertion order
DictSet(cfg, name, command) ==
    IF \E k \in 1..Len(cfg) : cfg[k].name = name
    THEN [k \in 1..Len(cfg) |->
             IF cfg[k].name = name THEN [name |-> name, command |-> command] ELSE cfg[k]]
    ELSE Append(cfg, [name |-> name, command |-> command])

DictDel(cfg, name) ==
    LET keep(e) == e.name # name IN SelectSeq(cfg, keep)

RECURSIVE DictUpdate(_, _)
DictUpdate(cfg, new) ==
    IF new = <<>> THEN cfg
    ELSE DictUpdate(DictSet(cfg, Head(new).name, Head(new).command), Tail(new))

\* load_config(path) on the files d: the mapping returned (or the error) and
\* the files afterwards
load_config(d, path) ==
    IF ~d[path].exists
    THEN [status |-> "ok", config |-> DEFAULT_CONFIG,
          disk |-> [d EXCEPT ![path] = File(DEFAULT_CONFIG)]]
    ELSE IF d[path].content = <<>>
    THEN [status |-> "ConfigurationError", config |-> <<>>, disk |-> d]
    ELSE [status |-> "ok", config |-> d[path].content, disk |-> d]

\* save_config(config): path is left to its default
save_config(d, cfg) == [d EXCEPT ![DEFAULT_CONFIG_PATH] = File(cfg)]

\* the file the manager loaded its mapping from (lines 55-58)
LoadedPath == IF Truthy(config_path) THEN config_path[1] ELSE DEFAULT_CONFIG_PATH

\* what the store operations report
Saved(op) == [kind |-> "saved", op |-> op]
Untouched(op, why) == [kind |-> why, op |-> op]

StoreNames == {S_abc, S_abd, <<>>}
StoreCommands == {OtherCommand, <<>>}
StoreAnswers == {Line(S_y), Line(<<>>), EOF}

\* the files found at start
InitialFiles == {Absent, File(<<>>), File(<<[name |-> S_abc, command |-> OtherCommand]>>)}

\* the file given to import: unreadable, or holding a mapping
Unreadable == [exists |-> FALSE, content |-> <<>>]
ImportFiles ==
    {Unreadable, File(<<>>), File(<<[name |-> S_abd, command |-> DefaultCommand]>>)}

SInit ==
    /\ TIdle
    /\ EIdle
    /\ config = <<>>
    /\ query = <<>>
    /\ resolved = [status |-> "none"]
    /\ pc = "new"
    /\ run = NoRun
    /\ allow_patch = FALSE
    /\ exit_status = -1
    /\ config_path \in {None, Some(OtherPath)}
    /\ disk \in [Paths -> InitialFiles]

\* ArgoCDManager.__init__, lines 55-58
Construct ==
    /\ pc = "new"
    /\ \E l \in {load_config(disk, LoadedPath)} :
           /\ pc' = IF l.status = "ok" THEN "ready" ELSE "failed"
           /\ config' = l.config
           /\ disk' = l.disk
    /\ UNCHANGED <<tvars, query, resolved, evars, run, allow_patch, config_path, exit_status>>

\* add_connection, lines 101-110
AddConnection ==
    /\ pc = "ready"
    /\ \E name \in StoreNames, command \in StoreCommands, ans \in StoreAnswers :
       LET exists == \E k \in 1..Len(config) : config[k].name = name
       IN  /\ query' = name
           /\ IF name = <<>> \/ command = <<>>
              THEN /\ result' = Untouched("add", "ConfigurationError")
                   /\ UNCHANGED <<config, disk>>
              ELSE IF exists /\ ans = EOF
              THEN /\ result' = Untouched("add", "EOFError")
                   /\ UNCHANGED <<config, disk>>
              ELSE IF exists /\ ~confirm_action(ans, FALSE)
              THEN /\ result' = Untouched("add", "cancelled")
                   /\ UNCHANGED <<config, disk>>
              ELSE /\ config' = DictSet(config, name, command)
                   /\ disk' = save_config(disk, DictSet(config, name, command))
                   /\ result' = Saved("add")
    /\ UNCHANGED <<tvars, resolved, confirmed_production, prompted, answer, launched, proc,
                   mvars, allow_patch, config_path, exit_status>>

\* remove_connection, lines 112-129
RemoveConnection ==
    /\ pc = "ready"
    /\ \E name \in StoreNames :
       \E exists \in {\E k \in 1..Len(config) : config[k].name = name} :
       \E match \in {IF exists THEN Some(name) ELSE fuzzy_match(name, Keys(config))} :
       \E instead \in StoreAnswers, sure \in StoreAnswers :
           /\ query' = name
           /\ IF match = None
              THEN /\ result' = Untouched("remove", "not_found")
                   /\ UNCHANGED <<config, disk>>
              ELSE IF (~exists /\ instead = EOF) \/ ((exists \/ confirm_action(instead, FALSE)) /\ sure = EOF)
              THEN /\ result' = Untouched("remove", "EOFError")
                   /\ UNCHANGED <<config, disk>>
              ELSE IF (~exists /\ ~confirm_action(instead, FALSE)) \/ ~confirm_action(sure, FALSE)
              THEN /\ result' = Untouched("remove", "cancelled")
                   /\ UNCHANGED <<config, disk>>
              ELSE /\ config' = DictDel(config, match[1])
                   /\ disk' = save_config(disk, DictDel(config, match[1]))
                   /\ result' = Saved("remove")
    /\ UNCHANGED <<tvars, resolved, confirmed_production, prompted, answer, launched, proc,
                   mvars, allow_patch, config_path, exit_status>>

\* import_config, lines 77-88
ImportConfig ==
    /\ pc = "ready"
    /\ \E f \in ImportFiles, merge \in BOOLEAN :
       LET new_cfg == IF merge THEN DictUpdate(config, f.content) ELSE f.content
       IN  IF ~f.exists
           THEN /\ result' = Untouched("import", "failed")
                /\ UNCHANGED <<config, disk>>
           ELSE /\ config' = new_cfg
                /\ disk' = save_config(disk, new_cfg)
                /\ result' = Saved("import")
    /\ UNCHANGED <<tvars, query, resolved, confirmed_production, prompted, answer, launched,
                   proc, mvars, allow_patch, config_path, exit_status>>

SNext ==
    \/ Construct
    \/ AddConnection
    \/ RemoveConnection
    \/ ImportConfig

SpecStore == SInit /\ [][SNext]_vars

\* C20: after every add, remove or import that changes the in-memory
\* mapping, the store the manager loaded its mapping from holds exactly the
\* in-memory mapping, for the default path and for an explicit config_path.
C20_AsStated ==
    (pc = "ready" /\ result.kind = "saved") => disk[LoadedPath] = File(config)

\* C28: after any sequence of add_connection, remove_connection and
\* import_config operations starting from a loadable store, the persisted
\* connection mapping is non-empty, so that the next start-up load succeeds
\* without a configuration error.
C28_AsStated ==
    (pc = "ready" /\ result.kind = "saved") =>
        /\ disk[DEFAULT_CONFIG_PATH].exists
        /\ disk[DEFAULT_CONFIG_PATH].content # <<>>
        /\ load_config(disk, DEFAULT_CONFIG_PATH).status = "ok"

=============================================================================
